---------------------------- MODULE Spec2Model ----------------------------
(***************************************************************************)
(* A model of pymame: the machine / software composite view (parent, clone *)
(* and BIOS resolution on the blocking and the cooperative surface), the   *)
(* free-text section splitter, the MAMEInfo entry scanner and the category *)
(* folder.  Strings the code inspects character by character are sequences *)
(* of one-character strings; Python's None is the string "None" for a      *)
(* basename and the record [kind |-> "None"] for an object.                *)
(***************************************************************************)
EXTENDS Integers, Sequences, FiniteSets, TLC

VARIABLES
    machines,       \* the -listxml source: basename -> <machine> element, or absent
    xml_path,       \* settings.xml_path is set (the dictionary) or not (the executable)
    lastSync,       \* the last get_machine call: its argument and what it returned or raised
    lastAsync,      \* the last get_machine_async call, likewise
    softwareList,   \* one software list's member mapping: basename -> <software> element
    lastSoftware,   \* the last get_software call
    lastParent,     \* the last read of Software.parent on lastSoftware's result
    text,           \* parse_info_sections: the raw text handed to it
    sections,       \* parse_info_sections: the dict it returns, in insertion order
    parsed,         \* parse_info_sections has returned
    contents,       \* MAMEInfoEntry: the constructor's argument
    self_contents,  \* MAMEInfoEntry.contents
    todo,           \* the lines the loop has still to visit
    buckets,        \* MAMEInfoEntry.sections, .list_sections and .recommended_games
    current_section,
    current_lines,
    current_is_list,
    infoPc,         \* "idle", "new", "scan" (in the loop) or "done" (returned)
    catFile,        \* the lines of catlist.ini in the category folder
    hashOrder,      \* this process's iteration order over a set of section names
    cats,           \* CategoryFolder.cats
    catLoaded,      \* the category folder has been loaded
    lastCat,        \* the last CategoryFolder.get_cat call and its outcome
    lockResource,   \* the lock-guarded resource: "history" or "counters"
    lockDisk,       \* what loading that resource yields: an object, or None
    lockCache,      \* DatsFolder._history_db / Machine._counters
    lockHolder,     \* the caller inside `async with` on the resource's lock, or NoCaller
    lockWaiters,    \* asyncio.Lock._waiters: the callers suspended in acquire(), first in first out
    callerPc,       \* each caller: "idle", "waiting", "loading" or "done"
    callerResult,   \* what each caller's await returned
    loads,          \* the callers that started a load, in order
    folderFile,     \* the lines of catlist.ini in the folder both loaders are pointed at
    listings,       \* how many times the folder was listed (Path.iterdir)
    parses,         \* how many times a category file was opened and parsed
    syncCache,      \* functools.cache of read_cat_folder
    asyncCache,     \* alru_cache of _read_cat_file_async
    loadLog,        \* the loads made so far: surface, disk touched, mapping returned
    catlistInput,   \* the string handed to CatlistCategory
    catlistObj,     \* the CatlistCategory constructed from it
    catlistRead,    \* the last accessor read on it and what it gave
    viewElement,    \* the <machine> element of the machine under view
    viewFolder,     \* the category folder's contents on disk
    viewSettings,   \* which optional paths of MAMESettings are set
    viewDisk,       \* which optional files exist on disk
    viewMachine,    \* the Machine get_machine returned
    viewRead,       \* the last accessor read on it and what it gave
    nplayersFile,   \* the lines of nplayers.ini
    nplayersResult, \* what _get_nplayers returned for it
    historyText,    \* the text of a history entry, as the pieces it was written from
    historyEntry,   \* the HistoryEntry constructed from it
    historyRead,    \* the last accessor read on it and what it gave
    timerFile,      \* timer.db on disk: whether it is there, and the rows of its timer table
    timerConfigured,\* settings.plugin_config_home is set
    timerSubject,   \* the Machine or Software whose play time is read
    timerRead,      \* the last play-time property read on it and what it gave
    software_lists, \* the software lists find_software_for_hashes is given
    finderResult    \* what the last find_software_for_hashes call returned or raised

resolveVars == <<machines, xml_path, lastSync, lastAsync, softwareList, lastSoftware, lastParent>>

sectionVars == <<text, sections, parsed>>

infoVars == <<contents, self_contents, todo, buckets, current_section, current_lines,
              current_is_list, infoPc>>

catVars == <<catFile, hashOrder, cats, catLoaded, lastCat>>

lockVars == <<lockResource, lockDisk, lockCache, lockHolder, lockWaiters, callerPc,
              callerResult, loads>>

loadVars == <<folderFile, listings, parses, syncCache, asyncCache, loadLog>>

catlistVars == <<catlistInput, catlistObj, catlistRead>>

viewVars == <<viewElement, viewFolder, viewSettings, viewDisk, viewMachine, viewRead>>

nplayersVars == <<nplayersFile, nplayersResult>>

historyVars == <<historyText, historyEntry, historyRead>>

timerVars == <<timerFile, timerConfigured, timerSubject, timerRead>>

finderVars == <<software_lists, finderResult>>

vars == <<resolveVars, sectionVars, infoVars, catVars, lockVars, loadVars, catlistVars,
          viewVars, nplayersVars, historyVars, timerVars, finderVars>>

\* What the actions of one part leave alone: the variables of every other part.
notResolveVars == <<sectionVars, infoVars, catVars, lockVars, loadVars, catlistVars, viewVars,
                    nplayersVars, historyVars, timerVars, finderVars>>

notSectionVars == <<resolveVars, infoVars, catVars, lockVars, loadVars, catlistVars, viewVars,
                    nplayersVars, historyVars, timerVars, finderVars>>

notInfoVars == <<resolveVars, sectionVars, catVars, lockVars, loadVars, catlistVars, viewVars,
                 nplayersVars, historyVars, timerVars, finderVars>>

notCatVars == <<resolveVars, sectionVars, infoVars, lockVars, loadVars, catlistVars, viewVars,
                nplayersVars, historyVars, timerVars, finderVars>>

notLockVars == <<resolveVars, sectionVars, infoVars, catVars, loadVars, catlistVars, viewVars,
                 nplayersVars, historyVars, timerVars, finderVars>>

notLoadVars == <<resolveVars, sectionVars, infoVars, catVars, lockVars, catlistVars, viewVars,
                 nplayersVars, historyVars, timerVars, finderVars>>

notCatlistVars == <<resolveVars, sectionVars, infoVars, catVars, lockVars, loadVars, viewVars,
                    nplayersVars, historyVars, timerVars, finderVars>>

notViewVars == <<resolveVars, sectionVars, infoVars, catVars, lockVars, loadVars, catlistVars,
                 nplayersVars, historyVars, timerVars, finderVars>>

notNplayersVars == <<resolveVars, sectionVars, infoVars, catVars, lockVars, loadVars,
                     catlistVars, viewVars, historyVars, timerVars, finderVars>>

notHistoryVars == <<resolveVars, sectionVars, infoVars, catVars, lockVars, loadVars,
                    catlistVars, viewVars, nplayersVars, timerVars, finderVars>>

notTimerVars == <<resolveVars, sectionVars, infoVars, catVars, lockVars, loadVars, catlistVars,
                  viewVars, nplayersVars, historyVars, finderVars>>

notFinderVars == <<resolveVars, sectionVars, infoVars, catVars, lockVars, loadVars,
                   catlistVars, viewVars, nplayersVars, historyVars, timerVars>>

---------------------------------------------------------------------------
(* Values *)

NoneStr == "None"

NoneObj == [kind |-> "None"]

Raise(exc) == [kind |-> "Raise", exc |-> exc]

IsRaise(r) == r.kind = "Raise"

NoCall == [arg |-> NoneStr, result |-> NoneObj]

\* The basenames a caller may ask for and an element may name.
Basenames == {"c", "p", "b"}

SoftwareBasenames == {"s", "t", "u"}

\* Python's recursion limit, scaled down: deeper than any acyclic chain over Basenames.
RecursionLimit == 5

Absent == [present |-> FALSE]

NoMachines == [n \in Basenames |-> Absent]

NoSoftware == [n \in SoftwareBasenames |-> Absent]

\* No lookup is under way: the state of the resolution part while another part runs.
IdleResolve ==
    /\ machines = NoMachines
    /\ xml_path = TRUE
    /\ softwareList = NoSoftware
    /\ lastSync = NoCall
    /\ lastAsync = NoCall
    /\ lastSoftware = NoCall
    /\ lastParent = NoneObj

\* MachineElement.parent_basename / MachineElement.bios_basename: the cloneof and
\* romof attributes, None when the attribute is missing.
MachineElements ==
    [present : {TRUE}, cloneof : Basenames \cup {NoneStr}, romof : Basenames \cup {NoneStr}]

SoftwareElements == [present : {TRUE}, cloneof : SoftwareBasenames \cup {NoneStr}]

---------------------------------------------------------------------------
(* The state of each part while another part runs *)

IdleSections ==
    /\ text = <<>>
    /\ sections = <<>>
    /\ parsed = FALSE

EmptyBuckets == [sections |-> <<>>, list_sections |-> <<>>, recommended_games |-> <<>>]

IdleInfo ==
    /\ contents = <<>>
    /\ self_contents = <<>>
    /\ todo = <<>>
    /\ buckets = EmptyBuckets
    /\ current_section = <<>>
    /\ current_lines = <<>>
    /\ current_is_list = FALSE
    /\ infoPc = "idle"

NoCatCall == [cat_name |-> NoneStr, basename |-> NoneStr,
              outcome |-> [result |-> NoneStr, warned |-> FALSE]]

IdleCats ==
    /\ catFile = <<>>
    /\ hashOrder = <<>>
    /\ cats = <<>>
    /\ catLoaded = FALSE
    /\ lastCat = NoCatCall

NoCaller == "NoCaller"

Callers == {"k1", "k2", "k3"}

IdleLock ==
    /\ lockResource = NoneStr
    /\ lockDisk = NoneObj
    /\ lockCache = NoneObj
    /\ lockHolder = NoCaller
    /\ lockWaiters = <<>>
    /\ callerPc = [k \in Callers |-> "idle"]
    /\ callerResult = [k \in Callers |-> NoneObj]
    /\ loads = <<>>

IdleLoad ==
    /\ folderFile = <<>>
    /\ listings = 0
    /\ parses = 0
    /\ syncCache = NoneObj
    /\ asyncCache = <<>>
    /\ loadLog = <<>>

NoRead == [accessor |-> NoneStr, value |-> NoneObj]

IdleCatlist ==
    /\ catlistInput = NoneObj
    /\ catlistObj = NoneObj
    /\ catlistRead = NoRead

IdleView ==
    /\ viewElement = NoneObj
    /\ viewFolder = <<>>
    /\ viewSettings = NoneObj
    /\ viewDisk = NoneObj
    /\ viewMachine = NoneObj
    /\ viewRead = NoRead

IdleNplayers ==
    /\ nplayersFile = NoneObj
    /\ nplayersResult = NoneObj

IdleHistory ==
    /\ historyText = NoneObj
    /\ historyEntry = NoneObj
    /\ historyRead = NoRead

IdleTimer ==
    /\ timerFile = NoneObj
    /\ timerConfigured = FALSE
    /\ timerSubject = NoneObj
    /\ timerRead = NoRead

IdleFinder ==
    /\ software_lists = <<>>
    /\ finderResult = NoneObj

\* Only one part runs in a behaviour: the parts that stay idle beside each.
OnlyResolve == IdleSections /\ IdleInfo /\ IdleCats /\ IdleLock /\ IdleLoad /\ IdleCatlist
            /\ IdleView /\ IdleNplayers /\ IdleHistory /\ IdleTimer /\ IdleFinder

OnlySections == IdleResolve /\ IdleInfo /\ IdleCats /\ IdleLock /\ IdleLoad /\ IdleCatlist
             /\ IdleView /\ IdleNplayers /\ IdleHistory /\ IdleTimer /\ IdleFinder

OnlyInfo == IdleResolve /\ IdleSections /\ IdleCats /\ IdleLock /\ IdleLoad /\ IdleCatlist
         /\ IdleView /\ IdleNplayers /\ IdleHistory /\ IdleTimer /\ IdleFinder

OnlyCats == IdleResolve /\ IdleSections /\ IdleInfo /\ IdleLock /\ IdleLoad /\ IdleCatlist
         /\ IdleView /\ IdleNplayers /\ IdleHistory /\ IdleTimer /\ IdleFinder

OnlyLock == IdleResolve /\ IdleSections /\ IdleInfo /\ IdleCats /\ IdleLoad /\ IdleCatlist
         /\ IdleView /\ IdleNplayers /\ IdleHistory /\ IdleTimer /\ IdleFinder

OnlyLoad == IdleResolve /\ IdleSections /\ IdleInfo /\ IdleCats /\ IdleLock /\ IdleCatlist
         /\ IdleView /\ IdleNplayers /\ IdleHistory /\ IdleTimer /\ IdleFinder

OnlyCatlist == IdleResolve /\ IdleSections /\ IdleInfo /\ IdleCats /\ IdleLock /\ IdleLoad
            /\ IdleView /\ IdleNplayers /\ IdleHistory /\ IdleTimer /\ IdleFinder

OnlyView == IdleResolve /\ IdleSections /\ IdleInfo /\ IdleCats /\ IdleLock /\ IdleLoad
         /\ IdleCatlist /\ IdleNplayers /\ IdleHistory /\ IdleTimer /\ IdleFinder

OnlyNplayers == IdleResolve /\ IdleSections /\ IdleInfo /\ IdleCats /\ IdleLock /\ IdleLoad
             /\ IdleCatlist /\ IdleView /\ IdleHistory /\ IdleTimer /\ IdleFinder

OnlyHistory == IdleResolve /\ IdleSections /\ IdleInfo /\ IdleCats /\ IdleLock /\ IdleLoad
            /\ IdleCatlist /\ IdleView /\ IdleNplayers /\ IdleTimer /\ IdleFinder

OnlyTimer == IdleResolve /\ IdleSections /\ IdleInfo /\ IdleCats /\ IdleLock /\ IdleLoad
          /\ IdleCatlist /\ IdleView /\ IdleNplayers /\ IdleHistory /\ IdleFinder

OnlyFinder == IdleResolve /\ IdleSections /\ IdleInfo /\ IdleCats /\ IdleLock /\ IdleLoad
           /\ IdleCatlist /\ IdleView /\ IdleNplayers /\ IdleHistory /\ IdleTimer

---------------------------------------------------------------------------
(* Strings: sequences of one-character strings *)

NL == "\n"

Whitespace == {" ", NL, "\t"}

RECURSIVE Concat(_)
\* The concatenation of a sequence of strings.
Concat(strs) == IF strs = <<>> THEN <<>> ELSE Head(strs) \o Concat(Tail(strs))

\* str.startswith
StartsWith(str, prefix) ==
    Len(str) >= Len(prefix) /\ SubSeq(str, 1, Len(prefix)) = prefix

\* str.removeprefix
RemovePrefix(str, prefix) ==
    IF StartsWith(str, prefix) THEN SubSeq(str, Len(prefix) + 1, Len(str)) ELSE str

\* str.strip()
Strip(str) ==
    LET keep == {i \in 1..Len(str) : str[i] \notin Whitespace}
    IN  IF keep = {} THEN <<>>
        ELSE SubSeq(str, CHOOSE i \in keep : \A j \in keep : i <= j,
                         CHOOSE i \in keep : \A j \in keep : i >= j)

\* The index of the first newline of str at or after from, 0 when there is none.
NextNewline(str, from) ==
    LET at == {k \in from..Len(str) : str[k] = NL}
    IN  IF at = {} THEN 0 ELSE CHOOSE k \in at : \A j \in at : k <= j

---------------------------------------------------------------------------
(* A dict: a sequence of [key, value] in insertion order *)

DictKeys(d) == {d[i].key : i \in 1..Len(d)}

DictGet(d, key) == (CHOOSE i \in 1..Len(d) : d[i].key = key)

\* d[key] = value: a new key goes last, a key already present keeps its place and
\* has its value replaced.
DictSet(d, key, value) ==
    IF key \in DictKeys(d)
    THEN [i \in 1..Len(d) |-> IF d[i].key = key THEN [key |-> key, value |-> value] ELSE d[i]]
    ELSE Append(d, [key |-> key, value |-> value])

---------------------------------------------------------------------------
(* support_files/history.py: parse_info_sections *)

\* _line_pattern = '\n- (.+) -\n' tried at index i of str: the index of the newline
\* that ends the match, 0 when the pattern does not match there.  '.' matches no
\* newline, so the match ends at the first newline after the "- ".
LinePatternEnd(str, i) ==
    IF i + 6 <= Len(str) /\ str[i] = NL /\ str[i + 1] = "-" /\ str[i + 2] = " "
    THEN LET k == NextNewline(str, i + 3)
         IN  IF k >= i + 6 /\ str[k - 2] = " " /\ str[k - 1] = "-" THEN k ELSE 0
    ELSE 0

\* _line_pattern.split(text) from index from on: the text before each match, then
\* the match's group, left to right over non-overlapping matches.
RECURSIVE LinePatternSplit(_, _)
LinePatternSplit(str, from) ==
    LET starts == {i \in from..Len(str) : LinePatternEnd(str, i) # 0}
    IN  IF starts = {} THEN <<SubSeq(str, from, Len(str))>>
        ELSE LET i == CHOOSE x \in starts : \A y \in starts : x <= y
                 k == LinePatternEnd(str, i)
             IN  <<SubSeq(str, from, i - 1), SubSeq(str, i + 3, k - 3)>>
                     \o LinePatternSplit(str, k + 1)

\* The loop of parse_info_sections over the groups from the i-th on.
RECURSIVE FillSections(_, _, _, _)
FillSections(groups, i, section, d) ==
    IF i > Len(groups) THEN d
    ELSE IF i % 2 = 0
         THEN FillSections(groups, i + 1, groups[i], d)
         ELSE FillSections(groups, i + 1, section, DictSet(d, section, Strip(groups[i])))

ParseInfoSections(str) == FillSections(LinePatternSplit(str, 1), 1, <<>>, <<>>)

\* The texts handed to the splitter: up to MaxPieces pieces, each a character, or a
\* delimiter line with or without the newline before it.
MaxPieces == 4

Delimiter(name) == <<NL, "-", " ">> \o name \o <<" ", "-", NL>>

Pieces ==
    { <<"a">>, <<"b">>, <<" ">>, <<NL>>, Delimiter(<<"X">>), Delimiter(<<"Y">>),
      <<"-", " ", "X", " ", "-", NL>> }

Texts == {Concat(ps) : ps \in UNION {[1..n -> Pieces] : n \in 0..MaxPieces}}

InitSections ==
    /\ text \in Texts
    /\ sections = <<>>
    /\ parsed = FALSE
    /\ OnlySections

CallParseInfoSections ==
    /\ ~parsed
    /\ sections' = ParseInfoSections(text)
    /\ parsed' = TRUE
    /\ UNCHANGED text
    /\ UNCHANGED notSectionVars

NextSections == CallParseInfoSections

SpecSections == InitSections /\ [][NextSections]_vars

---------------------------------------------------------------------------
(* Claims about parse_info_sections *)

\* The number of section delimiters of a text: the matches of _line_pattern.
DelimiterCount(str) == (Len(LinePatternSplit(str, 1)) - 1) \div 2

\* C6: for a text with N >= 0 section delimiters, parse_info_sections returns a
\* mapping with exactly N + 1 entries.
C6_OneBucketPerDelimiter ==
    parsed => Len(sections) = DelimiterCount(text) + 1

\* The bodies of a mapping in order, each after its header marker.
RECURSIVE Rebuild(_)
Rebuild(d) ==
    IF d = <<>> THEN <<>>
    ELSE (IF Head(d).key = <<>> THEN <<>> ELSE Delimiter(Head(d).key))
             \o Head(d).value \o Rebuild(Tail(d))

\* A text with the body between its delimiters trimmed.
RECURSIVE TrimBodies(_, _)
TrimBodies(groups, i) ==
    IF i > Len(groups) THEN <<>>
    ELSE (IF i % 2 = 0 THEN Delimiter(groups[i]) ELSE Strip(groups[i]))
             \o TrimBodies(groups, i + 1)

\* C7: parse_info_sections is lossless: the returned bodies in mapping order, each
\* after its header marker, are the input with every body trimmed.
C7_SplitIsLossless ==
    parsed => Rebuild(sections) = TrimBodies(LinePatternSplit(text, 1), 1)

---------------------------------------------------------------------------
(* support_files/mameinfo.py: MAMEInfoEntry *)

Marker == <<"$", "m", "a", "m", "e">>

RecommendedGames == <<"R", "e", "c", "o", "m", "m", "e", "n", "d", "e", "d", " ", "G", "a", "m", "e", "s">>

RecommendedGamesOpen == <<"R", "e", "c", "o", "m", "m", "e", "n", "d", "e", "d", " ", "G", "a", "m", "e", "s", " ", "(">>

LevelsPrefix == <<"L", "E", "V", "E", "L", "S", ":">>

ReleasePrefix == <<"A", "R", "C", "A", "D", "E", " ", "R", "E", "L", "E", "A", "S", "E", ":">>

RomsetPrefix == <<"R", "o", "m", "s", "e", "t", ":">>

ChdPrefix == <<"C", "H", "D", ":">>

SummaryKey == <<"s", "u", "m", "m", "a", "r", "y">>

LevelsKey == <<"L", "e", "v", "e", "l", "s">>

ReleaseKey == <<"R", "e", "l", "e", "a", "s", "e", " ", "d", "a", "t", "e">>

GamesKey == <<"G", "a", "m", "e", "s">>

\* normal_sections
NormalSections ==
    { name \o <<":">> : name \in
    { <<"W", "I", "P">>,
      <<"C", "H", "A", "N", "G", "E", "S">>,
      <<"T", "O", "D", "O">>,
      <<"T", "E", "S", "T", " ", "M", "O", "D", "E">>,
      <<"B", "u", "g", "s">>,
      <<"N", "O", "T", "E">>,
      <<"N", "O", "T", "E", "S">>,
      <<"S", "E", "T", "U", "P">>,
      <<"S", "E", "T", "U", "P", " ", "a", "n", "d", " ", "T", "E", "S", "T", " ", "M", "O", "D", "E">>,
      <<"S", "E", "R", "V", "I", "C", "E", " ", "M", "O", "D", "E">>,
      <<"S", "E", "T", "U", "P", "/", "S", "E", "R", "V", "I", "C", "E", " ", "M", "O", "D", "E">>,
      <<"S", "T", "O", "R", "Y">>,
      <<"H", "O", "W", " ", "T", "O", " ", "P", "L", "A", "Y">> } }

\* list_sections
ListSections ==
    { name \o <<":">> : name \in
    { <<"B", "I", "O", "S">>,
      <<"D", "E", "V", "I", "C", "E">>,
      <<"R", "O", "M", "S">>,
      <<"O", "t", "h", "e", "r", " ", "E", "m", "u", "l", "a", "t", "o", "r", "s">> } }

\* str.splitlines() from index from on: the lines between newlines, with no empty
\* last line after a final newline.
RECURSIVE SplitLines(_, _)
SplitLines(str, from) ==
    IF from > Len(str) THEN <<>>
    ELSE LET k == NextNewline(str, from)
         IN  IF k = 0 THEN <<SubSeq(str, from, Len(str))>>
             ELSE <<SubSeq(str, from, k - 1)>> \o SplitLines(str, k + 1)

\* '\n'.join(lines)
RECURSIVE JoinLines(_)
JoinLines(lines) ==
    IF lines = <<>> THEN <<>>
    ELSE IF Len(lines) = 1 THEN Head(lines)
    ELSE Head(lines) \o <<NL>> \o JoinLines(Tail(lines))

\* [liney for liney in current_lines if liney]
NonEmptyLines(lines) == SelectSeq(lines, LAMBDA liney : liney # <<>>)

\* line[:-1]
DropLast(str) == SubSeq(str, 1, Len(str) - 1)

\* finish(): the three buckets after the open section is flushed.
Finish(b, section, is_list, lines) ==
    LET kept == NonEmptyLines(lines)
    IN  IF StartsWith(section, RecommendedGames)
        THEN LET key == IF "(" \in {section[i] : i \in 1..Len(section)}
                        THEN DropLast(RemovePrefix(section, RecommendedGamesOpen))
                        ELSE GamesKey
             IN  [b EXCEPT !.recommended_games = DictSet(@, key, kept)]
        ELSE IF is_list
        THEN [b EXCEPT !.list_sections = DictSet(@, section, kept)]
        ELSE [b EXCEPT !.sections = DictSet(@, section, JoinLines(kept))]

\* The lines the scan iterates over.  The constructor stores
\* contents.removeprefix('$mame\n') in self.contents and then iterates over
\* contents.splitlines(), the argument.
ScannedLines(str) == SplitLines(str, 1)

\* The inputs: up to MaxInfoLines lines, each ended by a newline.
MaxInfoLines == 3

InfoLines ==
    { <<"$", "m", "a", "m", "e">>,
      <<"W", "I", "P", ":">>,
      <<"B", "I", "O", "S", ":">>,
      <<"R", "e", "c", "o", "m", "m", "e", "n", "d", "e", "d", " ", "G", "a", "m", "e", "s", " ", "(", "N", "E", "S", ")", ":">>,
      <<"R", "e", "c", "o", "m", "m", "e", "n", "d", "e", "d", " ", "G", "a", "m", "e", "s", " ", "(", "N", "E", "S", ")">>,
      <<"R", "e", "c", "o", "m", "m", "e", "n", "d", "e", "d", " ", "G", "a", "m", "e", "s", ":">>,
      <<"L", "E", "V", "E", "L", "S", ":", " ", "3">>,
      <<"A", "R", "C", "A", "D", "E", " ", "R", "E", "L", "E", "A", "S", "E", ":", " ", "1", "9", "9", "9">>,
      <<"R", "o", "m", "s", "e", "t", ":", " ", "1", " ", "k", "b">>,
      <<"-", " ", "f", "o", "o">>,
      <<"b", "a", "r">>,
      <<>> }

InfoTexts ==
    { Concat([i \in 1..Len(ls) |-> ls[i] \o <<NL>>]) :
        ls \in UNION {[1..n -> InfoLines] : n \in 0..MaxInfoLines} }

InitInfo ==
    /\ contents \in InfoTexts
    /\ self_contents = <<>>
    /\ todo = <<>>
    /\ buckets = EmptyBuckets
    /\ current_section = <<>>
    /\ current_lines = <<>>
    /\ current_is_list = FALSE
    /\ infoPc = "new"
    /\ OnlyInfo

\* MAMEInfoEntry.__init__ up to the loop
InfoConstruct ==
    /\ infoPc = "new"
    /\ self_contents' = RemovePrefix(contents, Marker \o <<NL>>)
    /\ buckets' = EmptyBuckets
    /\ current_section' = SummaryKey
    /\ current_lines' = <<>>
    /\ current_is_list' = FALSE
    /\ todo' = ScannedLines(contents)
    /\ infoPc' = "scan"
    /\ UNCHANGED contents
    /\ UNCHANGED notInfoVars

\* One iteration of the loop: a line of normal_sections or list_sections
InfoScanHeader ==
    /\ infoPc = "scan" /\ todo # <<>>
    /\ LET line == Head(todo)
       IN  /\ line \in NormalSections \/ line \in ListSections
           /\ buckets' = Finish(buckets, current_section, current_is_list, current_lines)
           /\ current_lines' = <<>>
           /\ current_section' = DropLast(line)
           /\ current_is_list' = (line \in ListSections)
    /\ todo' = Tail(todo)
    /\ UNCHANGED <<contents, self_contents, infoPc>>
    /\ UNCHANGED notInfoVars

\* a line starting 'Recommended Games'
InfoScanRecommended ==
    /\ infoPc = "scan" /\ todo # <<>>
    /\ LET line == Head(todo)
       IN  /\ ~(line \in NormalSections \/ line \in ListSections)
           /\ StartsWith(line, RecommendedGames)
           /\ buckets' = Finish(buckets, current_section, current_is_list, current_lines)
           /\ current_lines' = <<>>
           /\ current_section' = DropLast(line)
    /\ todo' = Tail(todo)
    /\ UNCHANGED <<contents, self_contents, infoPc, current_is_list>>
    /\ UNCHANGED notInfoVars

\* a line starting 'LEVELS:'
InfoScanLevels ==
    /\ infoPc = "scan" /\ todo # <<>>
    /\ LET line == Head(todo)
       IN  /\ ~(line \in NormalSections \/ line \in ListSections)
           /\ ~StartsWith(line, RecommendedGames)
           /\ StartsWith(line, LevelsPrefix)
           /\ buckets' =
                [Finish(buckets, current_section, current_is_list, current_lines)
                    EXCEPT !.sections = DictSet(@, LevelsKey, Strip(RemovePrefix(line, LevelsPrefix)))]
           /\ current_lines' = <<>>
           /\ current_section' = LevelsKey
           /\ current_is_list' = FALSE
    /\ todo' = Tail(todo)
    /\ UNCHANGED <<contents, self_contents, infoPc>>
    /\ UNCHANGED notInfoVars

\* a line starting 'ARCADE RELEASE:'
InfoScanRelease ==
    /\ infoPc = "scan" /\ todo # <<>>
    /\ LET line == Head(todo)
       IN  /\ ~(line \in NormalSections \/ line \in ListSections)
           /\ ~StartsWith(line, RecommendedGames)
           /\ ~StartsWith(line, LevelsPrefix)
           /\ StartsWith(line, ReleasePrefix)
           /\ buckets' =
                [Finish(buckets, current_section, current_is_list, current_lines)
                    EXCEPT !.sections = DictSet(@, ReleaseKey, Strip(RemovePrefix(line, ReleasePrefix)))]
           /\ current_lines' = <<>>
           /\ current_section' = ReleaseKey
           /\ current_is_list' = FALSE
    /\ todo' = Tail(todo)
    /\ UNCHANGED <<contents, self_contents, infoPc>>
    /\ UNCHANGED notInfoVars

IsPlainLine(line) ==
    /\ ~(line \in NormalSections \/ line \in ListSections)
    /\ ~StartsWith(line, RecommendedGames)
    /\ ~StartsWith(line, LevelsPrefix)
    /\ ~StartsWith(line, ReleasePrefix)

\* a line starting 'Romset:' or 'CHD:': continue
InfoScanSkip ==
    /\ infoPc = "scan" /\ todo # <<>>
    /\ IsPlainLine(Head(todo))
    /\ StartsWith(Head(todo), RomsetPrefix) \/ StartsWith(Head(todo), ChdPrefix)
    /\ todo' = Tail(todo)
    /\ UNCHANGED <<contents, self_contents, infoPc, buckets, current_section, current_lines,
                   current_is_list>>
    /\ UNCHANGED notInfoVars

\* any other line: current_lines.append(...)
InfoScanText ==
    /\ infoPc = "scan" /\ todo # <<>>
    /\ IsPlainLine(Head(todo))
    /\ ~(StartsWith(Head(todo), RomsetPrefix) \/ StartsWith(Head(todo), ChdPrefix))
    /\ current_lines' =
         Append(current_lines,
                Strip(RemovePrefix(RemovePrefix(Head(todo), <<"-", " ">>), <<"*", " ">>)))
    /\ todo' = Tail(todo)
    /\ UNCHANGED <<contents, self_contents, infoPc, buckets, current_section, current_is_list>>
    /\ UNCHANGED notInfoVars

\* The loop is over and __init__ returns.
InfoReturn ==
    /\ infoPc = "scan" /\ todo = <<>>
    /\ infoPc' = "done"
    /\ UNCHANGED <<contents, self_contents, todo, buckets, current_section, current_lines,
                   current_is_list>>
    /\ UNCHANGED notInfoVars

NextInfo ==
    \/ InfoConstruct
    \/ InfoScanHeader
    \/ InfoScanRecommended
    \/ InfoScanLevels
    \/ InfoScanRelease
    \/ InfoScanSkip
    \/ InfoScanText
    \/ InfoReturn

SpecInfo == InitInfo /\ [][NextInfo]_vars

---------------------------------------------------------------------------
(* Claims about MAMEInfoEntry *)

\* The open section's lines are in the bucket finish() files them under.
StoredAsFinished(b, section, is_list, lines) ==
    b = Finish(b, section, is_list, lines)

\* C8: after MAMEInfoEntry has scanned all input lines, the section open at end of
\* input has been flushed: no accumulated non-empty line is left outside the bucket
\* stored under the section's name.
C8_OpenSectionFlushed ==
    infoPc = "done" =>
        \/ NonEmptyLines(current_lines) = <<>>
        \/ StoredAsFinished(buckets, current_section, current_is_list, current_lines)

\* Every line held by a bucket: the lines of each free-text section, the items of
\* each list section and of each recommended-games list.
BucketLines(b) ==
    UNION {{SplitLines(b.sections[i].value, 1)[j] :
                j \in 1..Len(SplitLines(b.sections[i].value, 1))} : i \in 1..Len(b.sections)}
    \cup UNION {{b.list_sections[i].value[j] : j \in 1..Len(b.list_sections[i].value)} :
                    i \in 1..Len(b.list_sections)}
    \cup UNION {{b.recommended_games[i].value[j] : j \in 1..Len(b.recommended_games[i].value)} :
                    i \in 1..Len(b.recommended_games)}

\* C9: when the first line of the input is the marker '$mame' (and no later line
\* repeats it), the marker text appears in no bucket.
C9_MarkerInNoBucket ==
    (/\ StartsWith(contents, Marker \o <<NL>>)
     /\ \A i \in 2..Len(SplitLines(contents, 1)) : SplitLines(contents, 1)[i] # Marker)
    => Marker \notin BucketLines(buckets)

\* The lines the loop has already handled.
ScannedSoFar ==
    SubSeq(ScannedLines(contents), 1, Len(ScannedLines(contents)) - Len(todo))

\* The last of the handled lines that starts with prefix, 0 when there is none.
LastScalarLine(prefix) ==
    LET at == {i \in 1..Len(ScannedSoFar) : StartsWith(ScannedSoFar[i], prefix)}
    IN  IF at = {} THEN 0 ELSE CHOOSE i \in at : \A j \in at : i >= j

\* sections[key] is the trimmed text after prefix of the last handled line that
\* starts with prefix.
ScalarKept(prefix, key) ==
    LastScalarLine(prefix) # 0 =>
        /\ key \in DictKeys(buckets.sections)
        /\ buckets.sections[DictGet(buckets.sections, key)].value
             = Strip(RemovePrefix(ScannedSoFar[LastScalarLine(prefix)], prefix))

\* C25: once a 'LEVELS:' or 'ARCADE RELEASE:' line has been handled, sections['Levels']
\* / sections['Release date'] is the trimmed text after the prefix, and stays so
\* whatever lines and section transitions follow.
C25_ScalarFinal ==
    infoPc \in {"scan", "done"} =>
        /\ ScalarKept(LevelsPrefix, LevelsKey)
        /\ ScalarKept(ReleasePrefix, ReleaseKey)

\* The platform a 'Recommended Games' header names: the text between its parentheses,
\* 'Games' when it has none.
HeaderPlatform(line) ==
    LET opens == {i \in 1..Len(line) : line[i] = "("}
        closes == {i \in 1..Len(line) : line[i] = ")"}
    IN  IF opens = {} \/ closes = {} THEN GamesKey
        ELSE SubSeq(line, (CHOOSE i \in opens : \A j \in opens : i <= j) + 1,
                          (CHOOSE i \in closes : \A j \in closes : i >= j) - 1)

\* The first handled line after the i-th that opens another section, 0 when the
\* i-th line's section is still open.
NextTransition(i) ==
    LET at == {j \in (i + 1)..Len(ScannedSoFar) : ~IsPlainLine(ScannedSoFar[j])}
    IN  IF at = {} THEN 0 ELSE CHOOSE j \in at : \A k \in at : j <= k

\* The non-empty lines between the i-th handled line and the next section opening,
\* as the loop collects them.
FollowingLines(i) ==
    LET between == SubSeq(ScannedSoFar, i + 1, NextTransition(i) - 1)
        kept == SelectSeq(between, LAMBDA line :
                    ~(StartsWith(line, RomsetPrefix) \/ StartsWith(line, ChdPrefix)))
    IN  NonEmptyLines([k \in 1..Len(kept) |->
            Strip(RemovePrefix(RemovePrefix(kept[k], <<"-", " ">>), <<"*", " ">>))])

\* The i-th handled line is a 'Recommended Games' header whose section has been
\* closed by a later section opening, and no later closed header names the same
\* platform.
ClosedRecommended(i) ==
    /\ StartsWith(ScannedSoFar[i], RecommendedGames)
    /\ NextTransition(i) # 0
    /\ \A j \in (i + 1)..Len(ScannedSoFar) :
         ~(/\ StartsWith(ScannedSoFar[j], RecommendedGames)
           /\ NextTransition(j) # 0
           /\ HeaderPlatform(ScannedSoFar[j]) = HeaderPlatform(ScannedSoFar[i]))

\* C26: a closed 'Recommended Games' header, with or without a final colon, has its
\* following non-empty lines stored as a list in recommended_games under the platform
\* between its parentheses, or under 'Games' when it has no parentheses.
C26_RecommendedKey ==
    infoPc \in {"scan", "done"} =>
        \A i \in 1..Len(ScannedSoFar) :
            ClosedRecommended(i) =>
                LET key == HeaderPlatform(ScannedSoFar[i])
                    games == buckets.recommended_games
                IN  /\ key \in DictKeys(games)
                    /\ games[DictGet(games, key)].value = FollowingLines(i)

---------------------------------------------------------------------------
(* support_files/cats.py: parse_mame_cat_ini and CategoryFolder *)

\* d[current_section].add(line) on a defaultdict(set)
DictAddMember(d, key, member) ==
    IF key \in DictKeys(d)
    THEN [i \in 1..Len(d) |->
            IF d[i].key = key THEN [key |-> key, value |-> d[i].value \cup {member}] ELSE d[i]]
    ELSE Append(d, [key |-> key, value |-> {member}])

\* The loop of parse_mame_cat_ini over the lines from the i-th on; current_section
\* is "None" before the first section header.
RECURSIVE CatIniLoop(_, _, _, _)
CatIniLoop(lines, i, section, d) ==
    IF i > Len(lines) THEN d
    ELSE LET line == Strip(lines[i])
         IN  IF StartsWith(line, <<";">>) THEN CatIniLoop(lines, i + 1, section, d)
             ELSE IF StartsWith(line, <<"[">>)
             THEN CatIniLoop(lines, i + 1, SubSeq(line, 2, Len(line) - 1), d)
             ELSE IF section # NoneStr /\ section # <<>>
             THEN CatIniLoop(lines, i + 1, section, DictAddMember(d, section, line))
             ELSE CatIniLoop(lines, i + 1, section, d)

ParseMameCatIni(lines) == CatIniLoop(lines, 1, NoneStr, <<>>)

\* read_cat_folder on a folder that holds catlist.ini
ReadCatFolder(lines) == <<[key |-> "catlist", value |-> ParseMameCatIni(lines)]>>

\* CategoryFolder.get_cats: a Python set, or () when the category is unknown or empty
GetCats(folder, cat_name, basename) ==
    IF cat_name \notin DictKeys(folder) THEN {}
    ELSE LET cat == folder[DictGet(folder, cat_name)].value
         IN  IF cat = <<>> THEN {}
             ELSE {cat[i].key : i \in {j \in 1..Len(cat) : basename \in cat[j].value}}

\* The first section of the category, in the order the file was loaded, that holds
\* the basename.
FirstInLoadOrder(folder, cat_name, basename) ==
    IF GetCats(folder, cat_name, basename) = {} THEN NoneStr
    ELSE LET cat == folder[DictGet(folder, cat_name)].value
             hits == {j \in 1..Len(cat) : basename \in cat[j].value}
         IN  cat[CHOOSE j \in hits : \A k \in hits : j <= k].key

\* next(iter(a_set)) for a set of str: the element the process's string hashing puts
\* first, order being this process's iteration order over the section names.
SetIterFirst(a_set, order) ==
    LET at == {i \in 1..Len(order) : order[i] \in a_set}
    IN  order[CHOOSE i \in at : \A j \in at : i <= j]

\* CategoryFolder.get_cat: the value returned and whether the warning was logged
GetCat(folder, cat_name, basename, order) ==
    LET found == GetCats(folder, cat_name, basename)
    IN  IF found = {} THEN [result |-> NoneStr, warned |-> FALSE]
        ELSE [result |-> SetIterFirst(found, order), warned |-> Cardinality(found) > 1]

\* The category files: up to MaxCatLines lines.
MaxCatLines == 4

CatLines == { <<"[", "A", "]">>, <<"[", "B", "]">>, <<"x">>, <<"y">>, <<";", "x">> }

CatFiles == UNION {[1..n -> CatLines] : n \in 0..MaxCatLines}

SectionNames == { <<"A">>, <<"B">> }

\* The iteration orders string hashing can give a set of section names.
HashOrders == {o \in [1..Cardinality(SectionNames) -> SectionNames] :
                  \A i, j \in DOMAIN o : i # j => o[i] # o[j]}

InitCats ==
    /\ catFile \in CatFiles
    /\ hashOrder \in HashOrders
    /\ cats = <<>>
    /\ catLoaded = FALSE
    /\ lastCat = NoCatCall
    /\ OnlyCats

\* CategoryFolder.load_from_folder
LoadFromFolder ==
    /\ ~catLoaded
    /\ cats' = ReadCatFolder(catFile)
    /\ catLoaded' = TRUE
    /\ UNCHANGED <<catFile, hashOrder, lastCat>>
    /\ UNCHANGED notCatVars

\* CategoryFolder.get_cat
CallGetCat(cat_name, basename) ==
    /\ catLoaded
    /\ lastCat' = [cat_name |-> cat_name, basename |-> basename,
                   outcome |-> GetCat(cats, cat_name, basename, hashOrder)]
    /\ UNCHANGED <<catFile, hashOrder, cats, catLoaded>>
    /\ UNCHANGED notCatVars

NextCats ==
    \/ LoadFromFolder
    \/ \E cat_name \in {"catlist", "series"}, basename \in {<<"x">>, <<"y">>, <<"z">>} :
          CallGetCat(cat_name, basename)

SpecCats == InitCats /\ [][NextCats]_vars

---------------------------------------------------------------------------
(* Claims about CategoryFolder *)

\* C10: CategoryFolder.get_cat returns the matching section that comes first in
\* file (load) order, null when no section holds the basename, and logs the
\* warning exactly when more than one section matches.
C10_FirstInLoadOrder ==
    lastCat.cat_name # NoneStr =>
        /\ lastCat.outcome.result = FirstInLoadOrder(cats, lastCat.cat_name, lastCat.basename)
        /\ lastCat.outcome.warned
             = (Cardinality(GetCats(cats, lastCat.cat_name, lastCat.basename)) > 1)

---------------------------------------------------------------------------
(* The authoritative source *)

\* A lookup that defaults a missing key instead of raising (dict.get).
DictLookupDefaulting(src, basename) ==
    [kind |-> "Element", basename |-> basename,
     cloneof |-> IF src[basename].present THEN src[basename].cloneof ELSE NoneStr,
     romof |-> IF src[basename].present THEN src[basename].romof ELSE NoneStr]

\* get_machine_elements_from_file_as_dict(settings.xml_path)[basename]
DictLookup(src, basename) ==
    IF src[basename].present THEN [kind |-> "Element", basename |-> basename,
                                   cloneof |-> src[basename].cloneof,
                                   romof |-> src[basename].romof]
    ELSE Raise("KeyError")

\* _listxml / _listxml_async: the document the executable prints holds the <machine>
\* element, or none, and then KeyError(basename) is raised.
Listxml(src, basename) ==
    LET found == IF src[basename].present THEN {basename} ELSE {}
    IN  IF found = {} THEN Raise("KeyError")
        ELSE [kind |-> "Element", basename |-> basename,
              cloneof |-> src[basename].cloneof, romof |-> src[basename].romof]

\* _get_machine_element and _get_machine_element_async
GetMachineElement(src, usefile, basename) ==
    IF usefile THEN DictLookup(src, basename) ELSE Listxml(src, basename)

Machine(element, parent, bios) ==
    [kind |-> "Machine", basename |-> element.basename, cloneof |-> element.cloneof,
     romof |-> element.romof, parent |-> parent, bios |-> bios]

\* Machine.bios_basename
RECURSIVE BiosBasename(_)
\* The element's own romof, without the clone correction.
BiosBasenameNaive(m) == m.romof

BiosBasename(m) ==
    IF m.romof # NoneStr /\ m.romof = m.cloneof
    THEN IF m.parent.kind = "None" THEN "AssertionError" ELSE BiosBasename(m.parent)
    ELSE m.romof

\* get_machine: depth counts the Python frames of the recursion
RECURSIVE GetMachine(_, _, _, _)
GetMachine(src, usefile, basename, depth) ==
    IF depth > RecursionLimit THEN Raise("RecursionError")
    ELSE
    LET element == GetMachineElement(src, usefile, basename)
    IN  IF IsRaise(element) THEN element
        ELSE
        LET parent == IF element.cloneof # NoneStr
                      THEN GetMachine(src, usefile, element.cloneof, depth + 1)
                      ELSE NoneObj
        IN  IF IsRaise(parent) THEN parent
            ELSE
            LET bios == IF element.romof # NoneStr
                        THEN GetMachine(src, usefile, element.romof, depth + 1)
                        ELSE NoneObj
            IN  IF IsRaise(bios) THEN bios
                ELSE Machine(element, parent, bios)

\* get_machine_async
RECURSIVE GetMachineAsync(_, _, _, _)
GetMachineAsync(src, usefile, basename, depth) ==
    IF depth > RecursionLimit THEN Raise("RecursionError")
    ELSE
    LET element == GetMachineElement(src, usefile, basename)
    IN  IF IsRaise(element) THEN element
        ELSE
        LET parent == IF element.cloneof # NoneStr
                      THEN GetMachineAsync(src, usefile, element.cloneof, depth + 1)
                      ELSE NoneObj
        IN  IF IsRaise(parent) THEN parent
            ELSE
            LET bios_basename == IF parent.kind # "None" THEN BiosBasename(parent)
                                 ELSE element.romof
                bios == IF bios_basename # NoneStr
                        THEN GetMachineAsync(src, usefile, bios_basename, depth + 1)
                        ELSE NoneObj
            IN  IF IsRaise(bios) THEN bios
                ELSE Machine(element, parent, bios)

\* get_software with a SoftwareList: software_list.element.software[software]
GetSoftware(list, basename) ==
    IF list[basename].present
    THEN [kind |-> "Software", basename |-> basename, cloneof |-> list[basename].cloneof]
    ELSE Raise("KeyError")

\* Software.parent
SoftwareParentOf(list, software) ==
    IF software.cloneof # NoneStr THEN GetSoftware(list, software.cloneof) ELSE NoneObj

---------------------------------------------------------------------------
(* Resolution: the state machine *)

InitResolve ==
    /\ \/ /\ machines \in [Basenames -> MachineElements \cup {Absent}]
          /\ xml_path \in BOOLEAN
          /\ softwareList = NoSoftware
       \/ /\ machines = NoMachines
          /\ xml_path = TRUE
          /\ softwareList \in [SoftwareBasenames -> SoftwareElements \cup {Absent}]
    /\ lastSync = NoCall
    /\ lastAsync = NoCall
    /\ lastSoftware = NoCall
    /\ lastParent = NoneObj
    /\ OnlyResolve

CallGetMachine(basename) ==
    /\ lastSync' = [arg |-> basename, result |-> GetMachine(machines, xml_path, basename, 1)]
    /\ UNCHANGED <<machines, xml_path, lastAsync, softwareList, lastSoftware, lastParent>>
    /\ UNCHANGED notResolveVars

CallGetMachineAsync(basename) ==
    /\ lastAsync' = [arg |-> basename,
                     result |-> GetMachineAsync(machines, xml_path, basename, 1)]
    /\ UNCHANGED <<machines, xml_path, lastSync, softwareList, lastSoftware, lastParent>>
    /\ UNCHANGED notResolveVars

CallGetSoftware(basename) ==
    /\ lastSoftware' = [arg |-> basename, result |-> GetSoftware(softwareList, basename)]
    /\ lastParent' = NoneObj
    /\ UNCHANGED <<machines, xml_path, lastSync, lastAsync, softwareList>>
    /\ UNCHANGED notResolveVars

ReadSoftwareParent ==
    /\ lastSoftware.result.kind = "Software"
    /\ lastParent' = [kind |-> "Read",
                      value |-> SoftwareParentOf(softwareList, lastSoftware.result)]
    /\ UNCHANGED <<machines, xml_path, lastSync, lastAsync, softwareList, lastSoftware>>
    /\ UNCHANGED notResolveVars

NextResolve ==
    \/ \E basename \in Basenames : CallGetMachine(basename)
    \/ \E basename \in Basenames : CallGetMachineAsync(basename)
    \/ \E basename \in SoftwareBasenames : CallGetSoftware(basename)
    \/ ReadSoftwareParent

SpecResolve == InitResolve /\ [][NextResolve]_vars

---------------------------------------------------------------------------
(* Claims about resolution *)

NameOf(obj) == IF obj.kind = "None" THEN NoneStr ELSE obj.basename

IsSelfBiosClone(r) == r.kind = "Machine" /\ r.romof # NoneStr /\ r.romof = r.cloneof

\* C1: for a clone C whose romof equals its cloneof P, Machine.bios_basename of C is
\* the effective bios_basename of the Machine resolved for P, on both surfaces.
C1_BiosOfCloneIsParentsBios ==
    /\ IsSelfBiosClone(lastSync.result) =>
         BiosBasename(lastSync.result)
           = BiosBasename(GetMachine(machines, xml_path, lastSync.result.cloneof, 1))
    /\ IsSelfBiosClone(lastAsync.result) =>
         BiosBasename(lastAsync.result)
           = BiosBasename(GetMachineAsync(machines, xml_path, lastAsync.result.cloneof, 1))

\* C1 witness: a clone of p naming p as its romof was resolved, and p has the BIOS b.
C1_Witness ==
    /\ IsSelfBiosClone(lastSync.result)
    /\ lastSync.result.cloneof = "p"
    /\ machines["p"].present /\ machines["p"].romof = "b" /\ machines["p"].cloneof = NoneStr
    /\ BiosBasename(lastSync.result) = "b"

\* C2: get_machine and get_machine_async, asked for the same basename of the same
\* source, return Machines that agree on which machine is .parent and which is .bios.
C2_SurfacesAgree ==
    (/\ lastSync.arg # NoneStr
     /\ lastSync.arg = lastAsync.arg
     /\ lastSync.result.kind = "Machine"
     /\ lastAsync.result.kind = "Machine")
    => /\ NameOf(lastSync.result.parent) = NameOf(lastAsync.result.parent)
       /\ NameOf(lastSync.result.bios) = NameOf(lastAsync.result.bios)

\* C3: get_machine and get_machine_async end by returning a Machine or raising the
\* lookup failure, also when cloneof / romof references form a cycle.
C3_TerminatesOnCycles ==
    \A call \in {lastSync, lastAsync} :
        call.arg # NoneStr =>
            \/ call.result.kind = "Machine"
            \/ call.result = Raise("KeyError")

\* C4: when an entity's parent_basename names an entity absent from the source,
\* resolving the entity succeeds with parent None: get_machine returns a Machine
\* whose parent is None, and Software.parent is None.
C4_MissingParentDegrades ==
    /\ (/\ lastSync.arg # NoneStr
        /\ machines[lastSync.arg].present
        /\ machines[lastSync.arg].cloneof # NoneStr
        /\ ~machines[machines[lastSync.arg].cloneof].present)
       => (lastSync.result.kind = "Machine" /\ lastSync.result.parent = NoneObj)
    /\ (/\ lastParent.kind = "Read"
        /\ lastSoftware.result.cloneof # NoneStr
        /\ ~softwareList[lastSoftware.result.cloneof].present)
       => lastParent.value = NoneObj

C29_BiosAgrees ==
    \A call \in {lastSync, lastAsync} :
        call.result.kind = "Machine" =>
            NameOf(call.result.bios) = BiosBasename(call.result)

---------------------------------------------------------------------------
(* support_files/dat.py, wrappers/machine.py: the lock-guarded loads *)

LockResources == {"history", "counters"}

\* What the loader finds.  read_history_xml_async gives a HistoryXML ("Found") or None
\* (no history.xml); get_counters_async gives Counters ("Found"), None after a look at
\* the disk (no cfg file, no <system>, no <counters>), or None at once, without
\* suspending, when settings.configs_path is not set ("Unset").
LoadOutcomes(resource) ==
    {[kind |-> "Found"], NoneObj} \cup
        (IF resource = "counters" THEN {[kind |-> "Unset"]} ELSE {})

\* HistoryDB(xml) / the Counters of the n-th load: a new object each time.
LoadedObject(n) == [kind |-> "Object", load |-> n]

\* `if self._history_db:` / `if self._counters:` neither class defines __bool__ or
\* __len__, so an object is true and None is false.
Truthy(x) == x.kind # "None"

\* The load the caller k started.
LoadIndex(k) == CHOOSE i \in 1..Len(loads) : loads[i] = k

InitLock ==
    /\ lockResource \in LockResources
    /\ lockDisk \in LoadOutcomes(lockResource)
    /\ lockCache = NoneObj
    /\ lockHolder = NoCaller
    /\ lockWaiters = <<>>
    /\ callerPc = [k \in Callers |-> "idle"]
    /\ callerResult = [k \in Callers |-> NoneObj]
    /\ loads = <<>>
    /\ OnlyLock

\* asyncio.Lock.acquire takes the lock without suspending when it is free and nobody
\* waits for it.
LockFree == lockHolder = NoCaller /\ lockWaiters = <<>>

\* The body of `async with` up to its first suspension, run by k with the lock in hand
\* and waiters as the queue: the cached object is returned and the lock released, or a
\* load is started.
EnterHit(k, waiters) ==
    /\ Truthy(lockCache)
    /\ callerResult' = [callerResult EXCEPT ![k] = lockCache]
    /\ callerPc' = [callerPc EXCEPT ![k] = "done"]
    /\ lockWaiters' = waiters
    /\ UNCHANGED <<lockResource, lockDisk, lockCache, lockHolder, loads>>
    /\ UNCHANGED notLockVars

EnterLoad(k, waiters) ==
    /\ ~Truthy(lockCache)
    /\ loads' = Append(loads, k)
    /\ lockWaiters' = waiters
    /\ IF lockDisk.kind = "Unset"
       THEN \* get_counters_async returns None before any await
            /\ callerResult' = [callerResult EXCEPT ![k] = NoneObj]
            /\ callerPc' = [callerPc EXCEPT ![k] = "done"]
            /\ UNCHANGED <<lockCache, lockHolder>>
       ELSE /\ callerPc' = [callerPc EXCEPT ![k] = "loading"]
            /\ lockHolder' = k
            /\ UNCHANGED <<lockCache, callerResult>>
    /\ UNCHANGED <<lockResource, lockDisk>>
    /\ UNCHANGED notLockVars

\* history_db_async / _get_counters_async called with the lock free: cache hit
CallHit(k) ==
    /\ callerPc[k] = "idle" /\ LockFree
    /\ EnterHit(k, lockWaiters)

\* called with the lock free: cache miss, the load starts
CallLoad(k) ==
    /\ callerPc[k] = "idle" /\ LockFree
    /\ EnterLoad(k, lockWaiters)

\* called while the lock is held or others wait: suspended in acquire()
CallWait(k) ==
    /\ callerPc[k] = "idle" /\ ~LockFree
    /\ lockWaiters' = Append(lockWaiters, k)
    /\ callerPc' = [callerPc EXCEPT ![k] = "waiting"]
    /\ UNCHANGED <<lockResource, lockDisk, lockCache, lockHolder, callerResult, loads>>
    /\ UNCHANGED notLockVars

\* The first waiter resumes once the lock is released: cache hit
WakeHit(k) ==
    /\ callerPc[k] = "waiting" /\ lockHolder = NoCaller
    /\ lockWaiters # <<>> /\ Head(lockWaiters) = k
    /\ EnterHit(k, Tail(lockWaiters))

\* The first waiter resumes once the lock is released: cache miss
WakeLoad(k) ==
    /\ callerPc[k] = "waiting" /\ lockHolder = NoCaller
    /\ lockWaiters # <<>> /\ Head(lockWaiters) = k
    /\ EnterLoad(k, Tail(lockWaiters))

\* The awaited load returns; the rest of the body runs and the lock is released.
\* history_db_async leaves _history_db alone when there is no xml; _get_counters_async
\* assigns whatever get_counters_async gave.
LoadDone(k) ==
    /\ callerPc[k] = "loading"
    /\ LET got == IF lockDisk.kind = "Found" THEN LoadedObject(LoadIndex(k)) ELSE NoneObj
       IN  /\ lockCache' = IF lockResource = "history" /\ ~Truthy(got) THEN lockCache ELSE got
           /\ callerResult' = [callerResult EXCEPT ![k] = got]
    /\ callerPc' = [callerPc EXCEPT ![k] = "done"]
    /\ lockHolder' = NoCaller
    /\ UNCHANGED <<lockResource, lockDisk, lockWaiters, loads>>
    /\ UNCHANGED notLockVars

NextLock ==
    \E k \in Callers :
        \/ CallHit(k)
        \/ CallLoad(k)
        \/ CallWait(k)
        \/ WakeHit(k)
        \/ WakeLoad(k)
        \/ LoadDone(k)

SpecLock == InitLock /\ [][NextLock]_vars

\* DatsFolder.history_db / Machine._get_counters, the blocking surface: the call runs
\* from its first line to its return without suspending and takes no lock, so it can
\* run while a cooperative caller is suspended in its load.  The cache holds an
\* object: it is returned.
BlockingHit(k) ==
    /\ callerPc[k] = "idle"
    /\ Truthy(lockCache)
    /\ callerResult' = [callerResult EXCEPT ![k] = lockCache]
    /\ callerPc' = [callerPc EXCEPT ![k] = "done"]
    /\ UNCHANGED <<lockResource, lockDisk, lockCache, lockHolder, lockWaiters, loads>>
    /\ UNCHANGED notLockVars

\* The cache holds None: read_history_xml / get_counters is called.  history_db
\* returns None without assigning when there is no xml; _get_counters assigns
\* whatever get_counters gave.
BlockingLoad(k) ==
    /\ callerPc[k] = "idle"
    /\ ~Truthy(lockCache)
    /\ loads' = Append(loads, k)
    /\ LET got == IF lockDisk.kind = "Found" THEN LoadedObject(Len(loads) + 1) ELSE NoneObj
       IN  /\ lockCache' = IF lockResource = "history" /\ ~Truthy(got) THEN lockCache ELSE got
           /\ callerResult' = [callerResult EXCEPT ![k] = got]
    /\ callerPc' = [callerPc EXCEPT ![k] = "done"]
    /\ UNCHANGED <<lockResource, lockDisk, lockHolder, lockWaiters>>
    /\ UNCHANGED notLockVars

\* Callers of both surfaces on one DatsFolder / Machine.
NextSurfaces ==
    \/ NextLock
    \/ \E k \in Callers :
        \/ BlockingHit(k)
        \/ BlockingLoad(k)

SpecSurfaces == InitLock /\ [][NextSurfaces]_vars

---------------------------------------------------------------------------
(* Claims about the lock-guarded loads *)

\* C11: on the cooperative surface, whatever the number of concurrent callers and
\* the interleaving, a not-yet-loaded lock-guarded resource is loaded exactly once,
\* by the first caller, and every later caller observes that same cached result
\* without triggering another load.  (Stated for a resource whose path is set, so
\* that its loader goes to the disk.)
C11_LoadedOnce ==
    lockDisk.kind # "Unset" =>
        /\ Len(loads) <= 1
        /\ \A k \in Callers :
              callerPc[k] = "done" =>
                  (loads # <<>> /\ callerResult[k] = callerResult[loads[1]])

\* C28: cache entries are write-once: once _history_db / _counters holds a loaded
\* object, no step of a call on the blocking or on the cooperative surface, in any
\* interleaving, assigns the field another value, so that all callers receive the
\* same object.
C28_WriteOnce ==
    [][Truthy(lockCache) => lockCache' = lockCache]_vars

---------------------------------------------------------------------------
(* support_files/cats.py: read_cat_folder and read_cat_folder_async *)

\* The loads made in one behaviour, and the lines of a category file.
MaxLoads == 3

MaxLoadLines == 2

\* The folder: a dict from the stem of each .ini file in it to the file's lines.
FolderFiles ==
    { <<[key |-> "catlist", value |-> lines]>> :
        lines \in UNION {[1..n -> CatLines] : n \in 0..MaxLoadLines} }

SeriesIni == [key |-> "series", value |-> << <<"[", "A", "]">>, <<"x">> >>]

\* The body of both loaders' loop: cats[file.stem] = the parsed file, for the files
\* from the i-th on; cached holds the files parsed before (empty for read_cat_folder).
RECURSIVE ReadFiles(_, _, _, _)
ReadFiles(files, i, cached, d) ==
    IF i > Len(files) THEN d
    ELSE LET stem == files[i].key
             cat == IF stem \in DictKeys(cached) THEN cached[DictGet(cached, stem)].value
                    ELSE ParseMameCatIni(files[i].value)
         IN  ReadFiles(files, i + 1, cached, DictSet(d, stem, cat))

\* The files _read_cat_file_async has to open: those not in its cache.
Uncached(files, cached) == {i \in 1..Len(files) : files[i].key \notin DictKeys(cached)}

InitLoad ==
    /\ folderFile \in FolderFiles
    /\ listings = 0
    /\ parses = 0
    /\ syncCache = NoneObj
    /\ asyncCache = <<>>
    /\ loadLog = <<>>
    /\ OnlyLoad

\* CategoryFolder.load_from_folder: read_cat_folder under functools.cache
LoadSync ==
    /\ Len(loadLog) < MaxLoads
    /\ IF syncCache.kind = "None"
       THEN LET got == ReadFiles(folderFile, 1, <<>>, <<>>)
            IN  /\ listings' = listings + 1
                /\ parses' = parses + Len(folderFile)
                /\ syncCache' = [kind |-> "Cached", cats |-> got]
                /\ loadLog' = Append(loadLog, [surface |-> "sync", listed |-> 1,
                                               parsed |-> Len(folderFile), cats |-> got])
       ELSE /\ loadLog' = Append(loadLog, [surface |-> "sync", listed |-> 0, parsed |-> 0,
                                           cats |-> syncCache.cats])
            /\ UNCHANGED <<listings, parses, syncCache>>
    /\ UNCHANGED <<folderFile, asyncCache>>
    /\ UNCHANGED notLoadVars

\* CategoryFolder.load_from_folder_async: read_cat_folder_async lists the folder, then
\* _read_cat_file_async, under alru_cache, parses each file it has not parsed before.
LoadAsync ==
    /\ Len(loadLog) < MaxLoads
    /\ LET opened == Uncached(folderFile, asyncCache)
           got == ReadFiles(folderFile, 1, asyncCache, <<>>)
       IN  /\ listings' = listings + 1
           /\ parses' = parses + Cardinality(opened)
           /\ asyncCache' = ReadFiles(folderFile, 1, asyncCache, asyncCache)
           /\ loadLog' = Append(loadLog, [surface |-> "async", listed |-> 1,
                                          parsed |-> Cardinality(opened), cats |-> got])
    /\ UNCHANGED <<folderFile, syncCache>>
    /\ UNCHANGED notLoadVars

\* The folder is the user's: a category file is put into it between two loads.
AddSeriesIni ==
    /\ "series" \notin DictKeys(folderFile)
    /\ folderFile' = Append(folderFile, SeriesIni)
    /\ UNCHANGED <<listings, parses, syncCache, asyncCache, loadLog>>
    /\ UNCHANGED notLoadVars

NextLoad ==
    \/ LoadSync
    \/ LoadAsync
    \/ AddSeriesIni

SpecLoad == InitLoad /\ [][NextLoad]_vars

---------------------------------------------------------------------------
(* Claims about the folder loaders *)

\* C12: loading the same category folder path twice, through load_from_folder or
\* through load_from_folder_async, touches the disk (directory listing and file
\* parsing) only during the first load, and the second load yields the same category
\* mapping as the first.
C12_SecondLoadFromCache ==
    \A i, j \in 1..Len(loadLog) :
        (i < j /\ loadLog[i].surface = loadLog[j].surface) =>
            /\ loadLog[j].listed = 0
            /\ loadLog[j].parsed = 0
            /\ loadLog[j].cats = loadLog[i].cats

---------------------------------------------------------------------------
(* wrappers/catlist.py: CatlistCategory *)

\* str.find: the index of the first occurrence of sub in str at or after from, 0 when
\* there is none.
FindFirst(str, sub, from) ==
    LET at == {i \in from..(Len(str) - Len(sub) + 1) : SubSeq(str, i, i + Len(sub) - 1) = sub}
    IN  IF at = {} THEN 0 ELSE CHOOSE i \in at : \A j \in at : i <= j

\* str.partition(sep)
Partition(str, sep) ==
    LET i == FindFirst(str, sep, 1)
    IN  IF i = 0 THEN <<str, <<>>, <<>>>>
        ELSE <<SubSeq(str, 1, i - 1), sep, SubSeq(str, i + Len(sep), Len(str))>>

\* str.split(sep)
RECURSIVE Split(_, _)
Split(str, sep) ==
    LET i == FindFirst(str, sep, 1)
    IN  IF i = 0 THEN <<str>>
        ELSE <<SubSeq(str, 1, i - 1)>> \o Split(SubSeq(str, i + Len(sep), Len(str)), sep)

\* sep.join(strs)
RECURSIVE Join(_, _)
Join(strs, sep) ==
    IF strs = <<>> THEN <<>>
    ELSE IF Len(strs) = 1 THEN Head(strs)
    ELSE Head(strs) \o sep \o Join(Tail(strs), sep)

ArcadePrefix == <<"A", "r", "c", "a", "d", "e", ":", " ">>

ExtraSeparator == <<" ", "*", " ">>

ComponentSeparator == <<" ", "/", " ">>

BiosCategory == <<"A", "r", "c", "a", "d", "e", ":", " ", "S", "y", "s", "t", "e", "m", " ", "/", " ", "B", "I", "O", "S">>

ElectronicGameCategory == <<"H", "a", "n", "d", "h", "e", "l", "d", " ", "/", " ", "E", "l", "e", "c", "t", "r", "o", "n", "i", "c", " ", "G", "a", "m", "e">>

Electromechanical == <<"E", "l", "e", "c", "t", "r", "o", "m", "e", "c", "h", "a", "n", "i", "c", "a", "l">>

Pinball == <<"P", "i", "n", "b", "a", "l", "l">>

Handheld == <<"H", "a", "n", "d", "h", "e", "l", "d">>

PlugAndPlayTvGame == <<"P", "l", "u", "g", " ", "n", "'", " ", "P", "l", "a", "y", " ", "T", "V", " ", "G", "a", "m", "e">>

Mature == <<"M", "a", "t", "u", "r", "e">>

Ttl == <<"T", "T", "L">>

\* genre_types
GenreTypes ==
    << [key |-> <<"S", "l", "o", "t", " ", "M", "a", "c", "h", "i", "n", "e">>, value |-> "Gambling"],
       [key |-> <<"C", "a", "s", "i", "n", "o">>, value |-> "Gambling"],
       [key |-> <<"R", "e", "d", "e", "m", "p", "t", "i", "o", "n", " ", "G", "a", "m", "e">>, value |-> "Redemption"],
       [key |-> <<"M", "e", "d", "a", "l", " ", "G", "a", "m", "e">>, value |-> "MedalGame"],
       [key |-> <<"C", "o", "i", "n", " ", "P", "u", "s", "h", "e", "r">>, value |-> "CoinPusher"],
       [key |-> <<"P", "r", "i", "n", "t", " ", "C", "l", "u", "b">>, value |-> "PrintClub"] >>

\* The components split off the whole string, before the text after ' * ' is taken away.
CatlistCategoryUnsplit(str) ==
    LET parts == Partition(str, ExtraSeparator)
    IN  [kind |-> "Catlist", category |-> parts[1], has_extra |-> parts[2], extra |-> parts[3],
         components |-> Split(RemovePrefix(str, ArcadePrefix), ComponentSeparator)]

\* CatlistCategory.__init__
CatlistCategory(str) ==
    LET parts == Partition(str, ExtraSeparator)
    IN  [kind |-> "Catlist", category |-> parts[1], has_extra |-> parts[2], extra |-> parts[3],
         components |-> Split(RemovePrefix(parts[1], ArcadePrefix), ComponentSeparator)]

\* A str, a bool and a MachineType as a property returns them
Str(str) == [kind |-> "Str", str |-> str]

Bool(b) == [kind |-> "Bool", value |-> b]

MachineType(name) == [kind |-> "MachineType", name |-> name]

\* self._components[i], i counted from 0 as in the source
Component(c, i) ==
    IF i + 1 <= Len(c.components) THEN Str(c.components[i + 1]) ELSE Raise("IndexError")

\* CatlistCategory.is_arcade
CatlistIsArcade(c) == StartsWith(c.category, ArcadePrefix)

\* CatlistCategory.is_ttl
CatlistIsTtl(c) == c.extra = Ttl

\* CatlistCategory.is_mature
CatlistIsMature(c) == c.extra = Mature

\* CatlistCategory._is_plug_and_play
CatlistIsPlugAndPlay(c) ==
    /\ Component(c, 0) = Str(Handheld)
    /\ \E i \in 1..Len(c.components) : c.components[i] = PlugAndPlayTvGame

\* CatlistCategory.machine_type
CatlistMachineType(c) ==
    IF c.category = BiosCategory THEN MachineType("BIOS")
    ELSE IF c.components[1] \in DictKeys(GenreTypes)
    THEN MachineType(GenreTypes[DictGet(GenreTypes, c.components[1])].value)
    ELSE IF Component(c, 0) = Str(Electromechanical)
    THEN IF IsRaise(Component(c, 1)) THEN Component(c, 1)
         ELSE IF Component(c, 1) = Str(Pinball) THEN MachineType("Pinball")
         ELSE MachineType("Mechanical")
    ELSE IF CatlistIsArcade(c) THEN MachineType("Arcade")
    ELSE IF CatlistIsPlugAndPlay(c) THEN MachineType("PlugAndPlay")
    ELSE IF c.category = ElectronicGameCategory THEN MachineType("LCDHandheld")
    ELSE MachineType("Other")

\* CatlistCategory.genre
CatlistGenre(c) ==
    LET machine_type == CatlistMachineType(c)
    IN  IF IsRaise(machine_type) THEN machine_type
        ELSE IF machine_type.name \in {"Mechanical", "Redemption", "MedalGame"}
        THEN Component(c, 1)
        ELSE IF CatlistIsArcade(c) THEN Component(c, 0)
        ELSE IF CatlistIsPlugAndPlay(c) /\ Len(c.components) > 2 THEN Component(c, 2)
        ELSE NoneObj

\* CatlistCategory.subgenre
CatlistSubgenre(c) ==
    LET machine_type == CatlistMachineType(c)
    IN  IF IsRaise(machine_type) THEN machine_type
        ELSE IF machine_type.name \in {"Mechanical", "Redemption", "MedalGame"}
        THEN IF Len(c.components) > 2 THEN Component(c, 2) ELSE NoneObj
        ELSE IF CatlistIsArcade(c) /\ Len(c.components) > 1 THEN Component(c, 1)
        ELSE NoneObj

\* The properties of CatlistCategory a caller reads.
CatlistAccessors == {"machine_type", "genre", "subgenre", "is_arcade", "is_ttl", "is_mature"}

CatlistAccess(c, accessor) ==
    CASE accessor = "machine_type" -> CatlistMachineType(c)
      [] accessor = "genre" -> CatlistGenre(c)
      [] accessor = "subgenre" -> CatlistSubgenre(c)
      [] accessor = "is_arcade" -> Bool(CatlistIsArcade(c))
      [] accessor = "is_ttl" -> Bool(CatlistIsTtl(c))
      [] accessor = "is_mature" -> Bool(CatlistIsMature(c))

\* The category strings: an optional 'Arcade: ', up to MaxComponents components
\* joined by ' / ', an optional ' * ' and flag.
MaxComponents == 3

ComponentWords ==
    { <<>>, Electromechanical, Pinball, Handheld, PlugAndPlayTvGame,
      <<"R", "e", "d", "e", "m", "p", "t", "i", "o", "n", " ", "G", "a", "m", "e">>, <<"E", "l", "e", "c", "t", "r", "o", "n", "i", "c", " ", "G", "a", "m", "e">>, <<"S", "y", "s", "t", "e", "m">>, <<"B", "I", "O", "S">>, <<"S", "h", "o", "o", "t", "e", "r">> }

\* A category string with the pieces it was written from.
CategoryStrings ==
    { [str |-> prefix \o Join(words, ComponentSeparator) \o extra,
       prefix |-> prefix, words |-> words, extra |-> extra] :
        prefix \in {<<>>, ArcadePrefix},
        words \in UNION {[1..n -> ComponentWords] : n \in 1..MaxComponents},
        extra \in {<<>>, ExtraSeparator \o Mature, ExtraSeparator \o Ttl} }

InitCatlist ==
    /\ catlistInput \in CategoryStrings
    /\ catlistObj = NoneObj
    /\ catlistRead = NoRead
    /\ OnlyCatlist

\* CatlistCategory(category)
CatlistConstruct ==
    /\ catlistObj = NoneObj
    /\ catlistObj' = CatlistCategory(catlistInput.str)
    /\ UNCHANGED <<catlistInput, catlistRead>>
    /\ UNCHANGED notCatlistVars

\* A property of the constructed CatlistCategory is read.
CatlistReadAccessor(accessor) ==
    /\ catlistObj # NoneObj
    /\ catlistRead' = [accessor |-> accessor, value |-> CatlistAccess(catlistObj, accessor)]
    /\ UNCHANGED <<catlistInput, catlistObj>>
    /\ UNCHANGED notCatlistVars

NextCatlist ==
    \/ CatlistConstruct
    \/ \E accessor \in CatlistAccessors : CatlistReadAccessor(accessor)

SpecCatlist == InitCatlist /\ [][NextCatlist]_vars

---------------------------------------------------------------------------
(* Claims about CatlistCategory *)

\* The category matches one of the patterns machine_type knows.
KnownPattern(c) ==
    \/ c.category = BiosCategory
    \/ c.components[1] \in DictKeys(GenreTypes)
    \/ c.components[1] = Electromechanical
    \/ StartsWith(c.category, ArcadePrefix)
    \/ c.components[1] = Handheld
    \/ c.category = ElectronicGameCategory

\* C13: CatlistCategory is total: for every input string, also one with a single
\* component and the empty string, machine_type, genre, subgenre, is_arcade, is_ttl
\* and is_mature each return a value without raising, and machine_type is Other for
\* every string that matches no known pattern.
C13_CatlistTotal ==
    catlistRead.accessor # NoneStr =>
        /\ ~IsRaise(catlistRead.value)
        /\ (catlistRead.accessor = "machine_type" /\ ~KnownPattern(catlistObj))
              => catlistRead.value = MachineType("Other")

\* C14: for the category string 'Electromechanical / Pinball', CatlistCategory
\* reports machine_type = Pinball, genre = 'Pinball' and subgenre = null.
C14_ElectromechanicalPinball ==
    catlistInput.str = Electromechanical \o ComponentSeparator \o Pinball =>
        /\ catlistRead.accessor = "machine_type" => catlistRead.value = MachineType("Pinball")
        /\ catlistRead.accessor = "genre" => catlistRead.value = Str(Pinball)
        /\ catlistRead.accessor = "subgenre" => catlistRead.value = NoneObj

\* The machine types for which genre and subgenre have nothing to report.
GenrelessTypes == {"BIOS", "Gambling", "CoinPusher", "PrintClub", "LCDHandheld", "Other"}

\* C27: for every category string whose machine_type is BIOS, Gambling, CoinPusher,
\* PrintClub, LCDHandheld or Other, with or without the 'Arcade: ' prefix, genre and
\* subgenre are both None.
C27_GenrelessTypes ==
    (/\ catlistRead.accessor \in {"genre", "subgenre"}
     /\ ~IsRaise(CatlistMachineType(catlistObj))
     /\ CatlistMachineType(catlistObj).name \in GenrelessTypes)
    => catlistRead.value = NoneObj

\* The input has the form 'Arcade: G / S [/ ...] * Mature', G neither in the
\* genre-to-type table nor 'Electromechanical', and is not the BIOS marker.
IsMatureArcadeForm(input) ==
    /\ input.prefix = ArcadePrefix
    /\ input.extra = ExtraSeparator \o Mature
    /\ Len(input.words) >= 2
    /\ input.words[1] \notin DictKeys(GenreTypes)
    /\ input.words[1] # Electromechanical
    /\ input.prefix \o Join(input.words, ComponentSeparator) # BiosCategory

\* C15: for every category string of the form 'Arcade: G / S [/ ...] * Mature' whose
\* G is neither in the genre-to-type table nor 'Electromechanical' (and which is not
\* the BIOS marker), CatlistCategory reports is_arcade = true, machine_type = Arcade,
\* genre = G, subgenre = S and is_mature = true, and the text after ' * ' is part of
\* no component.
C15_MatureArcadeForm ==
    (catlistInput # NoneObj /\ IsMatureArcadeForm(catlistInput)) =>
        /\ catlistObj # NoneObj => catlistObj.components = catlistInput.words
        /\ catlistRead.accessor = "is_arcade" => catlistRead.value = Bool(TRUE)
        /\ catlistRead.accessor = "machine_type" => catlistRead.value = MachineType("Arcade")
        /\ catlistRead.accessor = "genre" => catlistRead.value = Str(catlistInput.words[1])
        /\ catlistRead.accessor = "subgenre" => catlistRead.value = Str(catlistInput.words[2])
        /\ catlistRead.accessor = "is_mature" => catlistRead.value = Bool(TRUE)

\* C15 witness: the subgenre of 'Arcade: Shooter / Handheld / Pinball * Mature' was
\* read and is 'Handheld'.
C15_Witness ==
    /\ catlistInput # NoneObj
    /\ IsMatureArcadeForm(catlistInput)
    /\ catlistInput.words = <<<<"S", "h", "o", "o", "t", "e", "r">>, Handheld, Pinball>>
    /\ catlistRead = [accessor |-> "subgenre", value |-> Str(Handheld)]

---------------------------------------------------------------------------
(* wrappers/machine.py: the Machine view over categories and optional resources *)

\* The machine under view, its parent and the parent's parent.
ViewBasenames == {"c", "p", "g"}

\* No section of a category file holds the basename.
NoEntry == <<>>

RECURSIVE SetToSeq(_)
\* The members of a set in some order: the order of the sections in a file.
SetToSeq(set) ==
    IF set = {} THEN <<>>
    ELSE LET x == CHOOSE y \in set : TRUE IN <<x>> \o SetToSeq(set \ {x})

\* A parsed category file (section -> basenames) in which each basename of assign is
\* in the section assign gives it.
MakeCat(assign) ==
    LET used == SetToSeq({assign[b] : b \in DOMAIN assign} \ {NoEntry})
    IN  [i \in 1..Len(used) |->
            [key |-> used[i], value |-> {b \in DOMAIN assign : assign[b] = used[i]}]]

\* The order next(iter(...)) visits the sections of a category in.
SectionOrder(folder, cat_name) ==
    IF cat_name \in DictKeys(folder)
    THEN LET cat == folder[DictGet(folder, cat_name)].value
         IN  [i \in 1..Len(cat) |-> cat[i].key]
    ELSE <<>>

\* category_folder.get_cat(cat, basename): a section name or None
FolderGetCat(folder, cat_name, basename) ==
    IF GetCats(folder, cat_name, basename) = {} THEN NoneObj
    ELSE Str(GetCat(folder, cat_name, basename, SectionOrder(folder, cat_name)).result)

\* Machine._get_cats
MachineGetCats(m, cat, fallback_parent) ==
    IF m.category_folder = NoneObj THEN {}
    ELSE LET cats_found == GetCats(m.category_folder.cats, cat, m.element.basename)
         IN  IF cats_found = {} /\ fallback_parent /\ m.element.cloneof # NoneStr
             THEN GetCats(m.category_folder.cats, cat, m.element.cloneof)
             ELSE cats_found

\* Machine._get_cat
MachineGetCat(m, cat, fallback_parent) ==
    IF m.category_folder = NoneObj THEN NoneObj
    ELSE LET cat_value == FolderGetCat(m.category_folder.cats, cat, m.element.basename)
         IN  IF cat_value = NoneObj /\ fallback_parent /\ m.element.cloneof # NoneStr
             THEN FolderGetCat(m.category_folder.cats, cat, m.element.cloneof)
             ELSE cat_value

\* Machine.catlist_full
CatlistFull(m) ==
    IF m.category_folder = NoneObj THEN NoneObj
    ELSE LET own == FolderGetCat(m.category_folder.cats, "catlist", m.element.basename)
         IN  IF own = NoneObj /\ m.element.cloneof # NoneStr
             THEN FolderGetCat(m.category_folder.cats, "catlist", m.element.cloneof)
             ELSE own

\* Machine.catlist
MachineCatlist(m) ==
    IF CatlistFull(m) # NoneObj /\ CatlistFull(m).str # <<>>
    THEN CatlistCategory(CatlistFull(m).str)
    ELSE NoneObj

\* platform_prefixes
PlatformPrefixes ==
    << [key |-> <<"G", "a", "m", "e", " ", "&", " ", "W", "a", "t", "c", "h">>, value |-> "LCDHandheld"],
       [key |-> <<"R", "-", "Z", "o", "n", "e">>, value |-> "ConsoleCartridge"] >>

\* platform_suffixes
PlatformSuffixes ==
    << [key |-> <<"X", "a", "v", "i", "X", "P", "O", "R", "T">>, value |-> "ConsoleCartridge"],
       [key |-> <<"C", "P", "S", " ", "C", "h", "a", "n", "g", "e", "r">>, value |-> "ConsoleCartridge"],
       [key |-> <<"D", "o", "m", "y", "o", "s", " ", "I", "n", "t", "e", "r", "a", "c", "t", "i", "v", "e", " ", "S", "y", "s", "t", "e", "m">>, value |-> "ConsoleCartridge"] >>

\* The first entry of a table that the test accepts, None when none does.
FirstMatch(table, Test(_)) ==
    LET at == {i \in 1..Len(table) : Test(table[i].key)}
    IN  IF at = {} THEN NoneObj ELSE table[CHOOSE i \in at : \A j \in at : i <= j]

\* Machine._platform_prefix
PlatformPrefix(m) ==
    FirstMatch(PlatformPrefixes, LAMBDA prefix : StartsWith(m.element.name, prefix \o <<":", " ">>))

\* str.split(sep, 1)
SplitOnce(str, sep) ==
    LET i == FindFirst(str, sep, 1)
    IN  IF i = 0 THEN <<str>>
        ELSE <<SubSeq(str, 1, i - 1), SubSeq(str, i + Len(sep), Len(str))>>

\* Machine._platform_suffix
PlatformSuffix(m) ==
    FirstMatch(PlatformSuffixes,
               LAMBDA suffix :
                   /\ FindFirst(m.element.name, <<" ", "(">>, 1) # 0
                   /\ FindFirst(SplitOnce(m.element.name, <<" ", "(">>)[2], suffix, 1) # 0)

\* Machine._is_arcade
MachineIsArcade(m) ==
    \/ /\ MachineCatlist(m) # NoneObj
       /\ CatlistMachineType(MachineCatlist(m)) = MachineType("Arcade")
    \/ m.element.number_of_coin_slots > 0

\* The type with the catlist entry asked before the element's BIOS flag.
MachineMachineTypeCatlistFirst(m) ==
    IF PlatformPrefix(m) # NoneObj THEN MachineType(PlatformPrefix(m).value)
    ELSE IF PlatformSuffix(m) # NoneObj THEN MachineType(PlatformSuffix(m).value)
    ELSE IF MachineCatlist(m) # NoneObj THEN CatlistMachineType(MachineCatlist(m))
    ELSE IF m.element.is_bios THEN MachineType("BIOS")
    ELSE IF MachineIsArcade(m) THEN MachineType("Arcade")
    ELSE IF m.element.is_mechanical THEN MachineType("Mechanical")
    ELSE MachineType("Other")

\* Machine.machine_type
MachineMachineType(m) ==
    IF PlatformPrefix(m) # NoneObj THEN MachineType(PlatformPrefix(m).value)
    ELSE IF PlatformSuffix(m) # NoneObj THEN MachineType(PlatformSuffix(m).value)
    ELSE IF m.element.is_bios THEN MachineType("BIOS")
    ELSE IF MachineCatlist(m) # NoneObj THEN CatlistMachineType(MachineCatlist(m))
    ELSE IF MachineIsArcade(m) THEN MachineType("Arcade")
    ELSE IF m.element.is_mechanical THEN MachineType("Mechanical")
    ELSE MachineType("Other")

\* The flag with 'not_mature' asked before 'mature'.
MachineIsMatureNotMatureFirst(m) ==
    IF MachineGetCat(m, "not_mature", TRUE) # NoneObj THEN Bool(FALSE)
    ELSE IF MachineGetCat(m, "mature", TRUE) # NoneObj THEN Bool(TRUE)
    ELSE IF MachineCatlist(m) # NoneObj THEN Bool(CatlistIsMature(MachineCatlist(m)))
    ELSE NoneObj

\* Machine.is_mature
MachineIsMature(m) ==
    IF MachineGetCat(m, "mature", TRUE) # NoneObj THEN Bool(TRUE)
    ELSE IF MachineGetCat(m, "not_mature", TRUE) # NoneObj THEN Bool(FALSE)
    ELSE IF MachineCatlist(m) # NoneObj THEN Bool(CatlistIsMature(MachineCatlist(m)))
    ELSE NoneObj


\* A set of section names, an int and an object as an accessor returns them
SetOf(members) == [kind |-> "Set", members |-> members]

IntOf(n) == [kind |-> "Int", value |-> n]

Object(class) == [kind |-> "Object", class |-> class]

\* The category each category-backed accessor looks up, and whether it passes
\* fallback_parent=True.
CategoryFields ==
    << [key |-> "series", value |-> [cat |-> "series", fallback_parent |-> TRUE, many |-> TRUE]],
       [key |-> "cabinet_types", value |-> [cat |-> "cabinets", fallback_parent |-> FALSE, many |-> TRUE]],
       [key |-> "languages", value |-> [cat |-> "languages", fallback_parent |-> FALSE, many |-> TRUE]],
       [key |-> "monochrome_type", value |-> [cat |-> "monochrome", fallback_parent |-> FALSE, many |-> FALSE]],
       [key |-> "version_added", value |-> [cat |-> "version", fallback_parent |-> FALSE, many |-> FALSE]],
       [key |-> "bestgames_rating_name", value |-> [cat |-> "bestgames", fallback_parent |-> FALSE, many |-> FALSE]] >>

\* Machine.series, .cabinet_types, .languages, .monochrome_type, .version_added and
\* .bestgames_rating_name
MachineCategoryField(m, accessor) ==
    LET field == CategoryFields[DictGet(CategoryFields, accessor)].value
    IN  IF field.many THEN SetOf(MachineGetCats(m, field.cat, field.fallback_parent))
        ELSE MachineGetCat(m, field.cat, field.fallback_parent)

\* Machine.has_free_play
MachineHasFreePlay(m) == Bool(MachineGetCat(m, "freeplay", FALSE) # NoneObj)

\* DatsFolder.get_dat_info: parse_dat opens the file, and no handler is around the open
GetDatInfo(m, file) ==
    CASE file = "missing" -> Raise("FileNotFoundError")
      [] file = "without" -> NoneObj
      [] file = "with" -> Object("str")

\* Machine.get_mameinfo
MachineGetMameinfo(m, disk) ==
    IF ~m.settings.dats_path THEN NoneObj
    ELSE LET entry == GetDatInfo(m, disk.mameinfo_dat)
         IN  IF entry.kind = "Object" THEN Object("MAMEInfoEntry") ELSE entry

\* Machine.get_messinfo_summary
MachineGetMessinfoSummary(m, disk) ==
    IF ~m.settings.dats_path THEN NoneObj ELSE GetDatInfo(m, disk.messinfo_dat)

\* Machine.get_history: read_history_xml gives None for a missing file
MachineGetHistory(m, disk) ==
    IF ~m.settings.dats_path THEN NoneObj
    ELSE CASE disk.history_xml = "missing" -> NoneObj
           [] disk.history_xml = "without" -> NoneObj
           [] disk.history_xml = "with" -> Object("HistoryEntry")

\* Machine.get_is_favourite: get_favourites reads favorites.ini, and no handler is
\* around the read
MachineGetIsFavourite(m, disk) ==
    IF ~m.settings.ui_path THEN Bool(FALSE)
    ELSE CASE disk.favorites_ini = "missing" -> Raise("FileNotFoundError")
           [] disk.favorites_ini = "without" -> Bool(FALSE)
           [] disk.favorites_ini = "with" -> Bool(TRUE)

\* Machine.play_count over Machine._timer_db_row: try_load_timer_db handles
\* FileNotFoundError, while sqlite3.connect makes a missing file and the SELECT then
\* raises sqlite3.OperationalError (no such table)
MachinePlayCount(m, disk) ==
    IF ~m.settings.plugin_config_home THEN IntOf(0)
    ELSE CASE disk.timer_db = "missing" -> Raise("OperationalError")
           [] disk.timer_db = "without" -> IntOf(0)
           [] disk.timer_db = "with" -> IntOf(1)

\* Machine.get_tickets_dispensed over get_counters, which handles FileNotFoundError
MachineGetTicketsDispensed(m, disk) ==
    IF ~m.settings.configs_path THEN NoneObj
    ELSE CASE disk.counters_cfg = "missing" -> NoneObj
           [] disk.counters_cfg = "without" -> NoneObj
           [] disk.counters_cfg = "with" -> IntOf(1)

\* The accessors of Machine a caller reads.
MachineAccessors ==
    DictKeys(CategoryFields) \cup
    {"machine_type", "is_mature", "has_free_play", "get_history", "get_mameinfo",
     "get_messinfo_summary", "get_is_favourite", "play_count", "get_tickets_dispensed"}

MachineAccess(m, disk, accessor) ==
    CASE accessor \in DictKeys(CategoryFields) -> MachineCategoryField(m, accessor)
      [] accessor = "machine_type" -> MachineMachineType(m)
      [] accessor = "is_mature" -> MachineIsMature(m)
      [] accessor = "has_free_play" -> MachineHasFreePlay(m)
      [] accessor = "get_history" -> MachineGetHistory(m, disk)
      [] accessor = "get_mameinfo" -> MachineGetMameinfo(m, disk)
      [] accessor = "get_messinfo_summary" -> MachineGetMessinfoSummary(m, disk)
      [] accessor = "get_is_favourite" -> MachineGetIsFavourite(m, disk)
      [] accessor = "play_count" -> MachinePlayCount(m, disk)
      [] accessor = "get_tickets_dispensed" -> MachineGetTicketsDispensed(m, disk)

\* get_machine for the element under view: the category folder is loaded when
\* settings.cat_path is set, and listing a folder that is not there raises.
GetViewMachine(element, settings, disk, folder) ==
    IF settings.cat_path /\ disk.cat_folder = "missing" THEN Raise("FileNotFoundError")
    ELSE [kind |-> "Machine", element |-> element, settings |-> settings,
          category_folder |-> IF settings.cat_path THEN [kind |-> "Folder", cats |-> folder]
                              ELSE NoneObj]


\* The coin slots an <input> element declares, at most.
MaxCoinSlots == 1

\* The display names: plain, with a platform prefix, with a platform suffix in
\* parentheses, with both, and with a platform's name outside parentheses.
ViewNames ==
    { <<"P", "a", "c", "-", "M", "a", "n">>, <<"G", "a", "m", "e", " ", "&", " ", "W", "a", "t", "c", "h", ":", " ", "B", "a", "l", "l">>, <<"R", "-", "Z", "o", "n", "e", ":", " ", "F", "o", "o">>, <<"F", "o", "o", " ", "(", "X", "a", "v", "i", "X", "P", "O", "R", "T", ")">>,
      <<"G", "a", "m", "e", " ", "&", " ", "W", "a", "t", "c", "h", ":", " ", "F", "o", "o", " ", "(", "C", "P", "S", " ", "C", "h", "a", "n", "g", "e", "r", ")">>, <<"X", "a", "v", "i", "X", "P", "O", "R", "T", " ", "F", "o", "o">> }

\* The sections of catlist.ini a machine may be listed under.
CatlistEntries ==
    { NoEntry, ArcadePrefix \o <<"S", "h", "o", "o", "t", "e", "r">> \o ExtraSeparator \o Mature,
      Electromechanical \o ComponentSeparator \o Pinball, Electromechanical }

RootFolder == <<"R", "O", "O", "T", "_", "F", "O", "L", "D", "E", "R">>

ViewElements ==
    [kind : {"Element"}, basename : {"c"}, name : ViewNames, cloneof : {NoneStr, "p"},
     parent_cloneof : {NoneStr}, is_bios : BOOLEAN, number_of_coin_slots : 0..MaxCoinSlots,
     is_mechanical : BOOLEAN]

\* A machine with nothing special about its element; a clone's parent may be a clone too.
PlainElements ==
    { [kind |-> "Element", basename |-> "c", name |-> <<"P", "a", "c", "-", "M", "a", "n">>, cloneof |-> cloneof,
       parent_cloneof |-> parent_cloneof, is_bios |-> FALSE, number_of_coin_slots |-> 0,
       is_mechanical |-> FALSE] :
        cloneof \in {NoneStr, "p"}, parent_cloneof \in {NoneStr, "g"} }
    \ { e \in [kind : {"Element"}, basename : {"c"}, name : {<<"P", "a", "c", "-", "M", "a", "n">>}, cloneof : {NoneStr},
               parent_cloneof : {"g"}, is_bios : {FALSE}, number_of_coin_slots : {0},
               is_mechanical : {FALSE}] : TRUE }

OnlyCatPath(set) ==
    [cat_path |-> set, dats_path |-> FALSE, ui_path |-> FALSE, configs_path |-> FALSE,
     plugin_config_home |-> FALSE]

OnlyCatFolder ==
    [cat_folder |-> "with", history_xml |-> "missing", mameinfo_dat |-> "missing",
     messinfo_dat |-> "missing", favorites_ini |-> "missing", counters_cfg |-> "missing",
     timer_db |-> "missing"]

\* The cases in which the element and the catlist entries vary.
ViewTypeCases ==
    { [element |-> e, settings |-> OnlyCatPath(cat_path), disk |-> OnlyCatFolder,
       folder |-> <<[key |-> "catlist",
                     value |-> MakeCat([b \in ViewBasenames |->
                                          IF b = "c" THEN own ELSE IF b = "p" THEN parents
                                          ELSE NoEntry])]>>] :
        e \in ViewElements, cat_path \in BOOLEAN, own \in CatlistEntries,
        parents \in CatlistEntries }

\* The cases in which mature.ini, not_mature.ini and the catlist entries vary.
ViewMaturityCases ==
    { [element |-> e, settings |-> OnlyCatPath(TRUE), disk |-> OnlyCatFolder,
       folder |-> << [key |-> "catlist",
                      value |-> MakeCat([b \in ViewBasenames |->
                                           IF b = "c" THEN own ELSE IF b = "p" THEN parents
                                           ELSE NoEntry])],
                     [key |-> "mature",
                      value |-> MakeCat([b \in ViewBasenames |->
                                           IF b \in mature THEN RootFolder ELSE NoEntry])],
                     [key |-> "not_mature",
                      value |-> MakeCat([b \in ViewBasenames |->
                                           IF b \in not_mature THEN RootFolder ELSE NoEntry])] >>] :
        e \in PlainElements, own \in CatlistEntries \ {Electromechanical},
        parents \in CatlistEntries \ {Electromechanical},
        mature \in SUBSET {"c", "p"}, not_mature \in SUBSET {"c", "p"} }

\* The cases in which one category file varies.
ViewFallbackCases ==
    { [element |-> e, settings |-> OnlyCatPath(TRUE), disk |-> OnlyCatFolder,
       folder |-> <<[key |-> cat, value |-> MakeCat(assign)]>>] :
        e \in PlainElements,
        cat \in {"series", "cabinets", "languages", "monochrome", "version", "bestgames",
                 "freeplay"},
        assign \in [ViewBasenames -> {NoEntry} \cup SectionNames] }

\* The cases in which the optional paths and the files behind them vary; a file behind
\* a path that is not set is of no account.
ViewResourceCases ==
    { [element |-> e, settings |-> settings, disk |-> disk,
       folder |-> <<[key |-> "catlist", value |-> <<>>]>>] :
        e \in {x \in PlainElements : x.cloneof = NoneStr},
        settings \in [cat_path : BOOLEAN, dats_path : BOOLEAN, ui_path : BOOLEAN,
                      configs_path : BOOLEAN, plugin_config_home : BOOLEAN],
        disk \in [cat_folder : {"missing", "with"}, history_xml : {"missing", "with"},
                  mameinfo_dat : {"missing", "without", "with"},
                  messinfo_dat : {"missing", "with"},
                  favorites_ini : {"missing", "without", "with"},
                  counters_cfg : {"missing", "without", "with"},
                  timer_db : {"missing", "without", "with"}] }

\* A file behind a path that is not set stands as missing.
Canonical(case) ==
    /\ ~case.settings.cat_path => case.disk.cat_folder = "missing"
    /\ ~case.settings.dats_path =>
          /\ case.disk.history_xml = "missing"
          /\ case.disk.mameinfo_dat = "missing"
          /\ case.disk.messinfo_dat = "missing"
    /\ ~case.settings.ui_path => case.disk.favorites_ini = "missing"
    /\ ~case.settings.configs_path => case.disk.counters_cfg = "missing"
    /\ ~case.settings.plugin_config_home => case.disk.timer_db = "missing"

InitView ==
    /\ \E case \in ViewTypeCases \cup ViewMaturityCases \cup ViewFallbackCases
                      \cup {x \in ViewResourceCases : Canonical(x)} :
          /\ viewElement = case.element
          /\ viewFolder = case.folder
          /\ viewSettings = case.settings
          /\ viewDisk = case.disk
    /\ viewMachine = NoneObj
    /\ viewRead = NoRead
    /\ OnlyView

\* get_machine(settings, basename)
ViewConstruct ==
    /\ viewMachine = NoneObj
    /\ viewMachine' = GetViewMachine(viewElement, viewSettings, viewDisk, viewFolder)
    /\ UNCHANGED <<viewElement, viewFolder, viewSettings, viewDisk, viewRead>>
    /\ UNCHANGED notViewVars

\* An accessor of the Machine is read.
ViewReadAccessor(accessor) ==
    /\ viewMachine.kind = "Machine"
    /\ viewRead' = [accessor |-> accessor, value |-> MachineAccess(viewMachine, viewDisk, accessor)]
    /\ UNCHANGED <<viewElement, viewFolder, viewSettings, viewDisk, viewMachine>>
    /\ UNCHANGED notViewVars

NextView ==
    \/ ViewConstruct
    \/ \E accessor \in MachineAccessors : ViewReadAccessor(accessor)

SpecView == InitView /\ [][NextView]_vars


---------------------------------------------------------------------------
(* Claims about the Machine view *)

\* The sections of a category file that hold the basename, read off the files on disk.
SectionsHolding(cat_name, basename) ==
    IF viewSettings.cat_path /\ cat_name \in DictKeys(viewFolder)
    THEN LET cat == viewFolder[DictGet(viewFolder, cat_name)].value
         IN  {cat[i].key : i \in {j \in 1..Len(cat) : basename \in cat[j].value}}
    ELSE {}

\* The sections holding the machine, and those holding its parent when none holds the
\* machine and it has a parent.
OwnOrParentSections(cat_name) ==
    IF SectionsHolding(cat_name, viewElement.basename) = {} /\ viewElement.cloneof # NoneStr
    THEN SectionsHolding(cat_name, viewElement.cloneof)
    ELSE SectionsHolding(cat_name, viewElement.basename)

\* The display name has the platform somewhere after a ' ('.
InParentheses(name, platform) ==
    \E i \in 1..(Len(name) - 1), j \in 1..(Len(name) - Len(platform) + 1) :
        /\ SubSeq(name, i, i + 1) = <<" ", "(">>
        /\ j >= i + 2
        /\ SubSeq(name, j, j + Len(platform) - 1) = platform

\* C16: Machine.machine_type follows a fixed precedence: a platform prefix match on
\* the display name wins, then a platform suffix match, then the element's BIOS flag,
\* then the classification of the catlist entry when there is one (an error of the
\* classification included), and only with no catlist entry the fallback: coin slots
\* > 0 gives Arcade, else the mechanical flag gives Mechanical, else Other.
C16_TypePrecedence ==
    viewRead.accessor = "machine_type" =>
        viewRead.value =
            IF StartsWith(viewElement.name, <<"G", "a", "m", "e", " ", "&", " ", "W", "a", "t", "c", "h", ":", " ">>) THEN MachineType("LCDHandheld")
            ELSE IF StartsWith(viewElement.name, <<"R", "-", "Z", "o", "n", "e", ":", " ">>) THEN MachineType("ConsoleCartridge")
            ELSE IF \E platform \in {<<"X", "a", "v", "i", "X", "P", "O", "R", "T">>, <<"C", "P", "S", " ", "C", "h", "a", "n", "g", "e", "r">>, <<"D", "o", "m", "y", "o", "s", " ", "I", "n", "t", "e", "r", "a", "c", "t", "i", "v", "e", " ", "S", "y", "s", "t", "e", "m">>} :
                        InParentheses(viewElement.name, platform)
                 THEN MachineType("ConsoleCartridge")
            ELSE IF viewElement.is_bios THEN MachineType("BIOS")
            ELSE IF OwnOrParentSections("catlist") # {}
                 THEN CatlistMachineType(
                          CatlistCategory(CHOOSE s \in OwnOrParentSections("catlist") : TRUE))
            ELSE IF viewElement.number_of_coin_slots > 0 THEN MachineType("Arcade")
            ELSE IF viewElement.is_mechanical THEN MachineType("Mechanical")
            ELSE MachineType("Other")

\* C16 witness: a BIOS with a pinball catlist entry and a coin slot, but no platform in
\* its name, was read as BIOS.
C16_Witness ==
    /\ viewRead = [accessor |-> "machine_type", value |-> MachineType("BIOS")]
    /\ viewElement.name = <<"P", "a", "c", "-", "M", "a", "n">>
    /\ viewElement.is_bios
    /\ viewElement.number_of_coin_slots > 0
    /\ OwnOrParentSections("catlist") = {Electromechanical \o ComponentSeparator \o Pinball}

\* C17: Machine.is_mature resolves in this order: a hit in 'mature' gives true (also
\* when 'not_mature' hits too); otherwise a hit in 'not_mature' gives false; otherwise
\* the value is the Mature flag of the catlist entry; and it is None when none of these
\* decides.
C17_MatureOrder ==
    viewRead.accessor = "is_mature" =>
        viewRead.value =
            IF OwnOrParentSections("mature") # {} THEN Bool(TRUE)
            ELSE IF OwnOrParentSections("not_mature") # {} THEN Bool(FALSE)
            ELSE IF OwnOrParentSections("catlist") # {}
                 THEN Bool(CatlistIsMature(
                          CatlistCategory(CHOOSE s \in OwnOrParentSections("catlist") : TRUE)))
            ELSE NoneObj

\* C17 witness: a machine listed in mature.ini and in not_mature.ini, whose catlist
\* entry has no Mature flag, was read as mature.
C17_Witness ==
    /\ viewRead = [accessor |-> "is_mature", value |-> Bool(TRUE)]
    /\ SectionsHolding("mature", "c") # {}
    /\ SectionsHolding("not_mature", "c") # {}
    /\ SectionsHolding("catlist", "c") = {Electromechanical \o ComponentSeparator \o Pinball}

\* The category file behind each field of C18.
FieldCategory(accessor) ==
    CASE accessor = "series" -> "series"
      [] accessor = "version_added" -> "version"
      [] accessor = "bestgames_rating_name" -> "bestgames"
      [] accessor = "cabinet_types" -> "cabinets"
      [] accessor = "languages" -> "languages"
      [] accessor = "has_free_play" -> "freeplay"
      [] accessor = "monochrome_type" -> "monochrome"

\* The fields that take the parent's sections when the machine has none.
OptInFields == {"series", "version_added", "bestgames_rating_name"}

\* C18: for each field that opts into parent fallback (series, version_added and the
\* bestgames rating), when the lookup for the machine's own basename is empty and the
\* machine has a parent, the value is the result of the same lookup on the parent, a
\* single hop; cabinets, languages, freeplay and monochrome are looked up for the
\* machine only.
C18_ParentFallback ==
    \A accessor \in OptInFields \cup {"cabinet_types", "languages", "has_free_play", "monochrome_type"} :
        viewRead.accessor = accessor =>
            LET expected == IF accessor \in OptInFields
                            THEN OwnOrParentSections(FieldCategory(accessor))
                            ELSE SectionsHolding(FieldCategory(accessor), viewElement.basename)
            IN  viewRead.value =
                    CASE accessor \in {"series", "cabinet_types", "languages"} -> SetOf(expected)
                      [] accessor = "has_free_play" -> Bool(expected # {})
                      [] OTHER -> IF expected = {} THEN NoneObj
                                  ELSE Str(CHOOSE s \in expected : TRUE)

\* The resource behind the accessor is not configured, or its file is not on disk.
Unavailable(accessor) ==
    CASE accessor \in {"get_history"} ->
            ~viewSettings.dats_path \/ viewDisk.history_xml = "missing"
      [] accessor = "get_mameinfo" ->
            ~viewSettings.dats_path \/ viewDisk.mameinfo_dat = "missing"
      [] accessor = "get_messinfo_summary" ->
            ~viewSettings.dats_path \/ viewDisk.messinfo_dat = "missing"
      [] accessor = "get_is_favourite" ->
            ~viewSettings.ui_path \/ viewDisk.favorites_ini = "missing"
      [] accessor = "play_count" ->
            ~viewSettings.plugin_config_home \/ viewDisk.timer_db = "missing"
      [] accessor = "get_tickets_dispensed" ->
            ~viewSettings.configs_path \/ viewDisk.counters_cfg = "missing"
      [] OTHER -> ~viewSettings.cat_path

\* What the accessor gives when it has nothing to read.
DefaultOf(accessor) ==
    CASE accessor \in {"series", "cabinet_types", "languages"} -> SetOf({})
      [] accessor \in {"has_free_play", "get_is_favourite"} -> Bool(FALSE)
      [] accessor = "play_count" -> IntOf(0)
      [] accessor = "machine_type" -> viewRead.value
      [] OTHER -> NoneObj

\* C19: when an optional resource is not configured or its file is missing on disk,
\* every Machine accessor that depends on it returns None, empty or its default and
\* does not raise.
C19_Degrades ==
    \A accessor \in MachineAccessors :
        (viewRead.accessor = accessor /\ Unavailable(accessor)) =>
            /\ ~IsRaise(viewRead.value)
            /\ viewRead.value = DefaultOf(accessor)


---------------------------------------------------------------------------
(* support_files/cats.py: _get_nplayers over configparser.RawConfigParser *)

\* The lines of nplayers.ini, at most.
MaxNplayersLines == 4

NPlayersSection == <<"N", "P", "l", "a", "y", "e", "r", "s">>

\* RawConfigParser.default_section
DefaultSection == <<"D", "E", "F", "A", "U", "L", "T">>

\* comment_prefixes=';'
CommentPrefix == <<";">>

\* delimiters='='
OptionDelimiter == <<"=">>

\* str.rstrip()
RStrip(str) ==
    LET keep == {i \in 1..Len(str) : str[i] \notin Whitespace}
    IN  IF keep = {} THEN <<>>
        ELSE SubSeq(str, 1, CHOOSE i \in keep : \A j \in keep : i >= j)

\* NONSPACECRE.search(line).start(), 0 when the line has nothing but whitespace
IndentLevel(line) ==
    LET keep == {i \in 1..Len(line) : line[i] \notin Whitespace}
    IN  IF keep = {} THEN 0 ELSE (CHOOSE i \in keep : \A j \in keep : i <= j) - 1

\* SECTCRE = \[(?P<header>.+)\] matched at the start of value: the header, None when
\* there is no match.  '.+' is greedy, so the header runs to the last ']'.
SectionHeader(value) ==
    LET close == {k \in 3..Len(value) : value[k] = "]"}
    IN  IF value # <<>> /\ value[1] = "[" /\ close # {}
        THEN Str(SubSeq(value, 2, (CHOOSE k \in close : \A j \in close : k >= j) - 1))
        ELSE NoneObj

\* OPTCRE = (?P<option>.*?)\s*(?P<vi>=)\s*(?P<value>.*)$ matched at the start of value:
\* option and value around the first delimiter, None when there is none.
OptionMatch(value) ==
    LET i == FindFirst(value, OptionDelimiter, 1)
    IN  IF i = 0 THEN NoneObj
        ELSE [kind |-> "Match", option |-> RStrip(SubSeq(value, 1, i - 1)),
              value |-> Strip(SubSeq(value, i + 1, Len(value)))]

\* The parser before the first line: no sections, no defaults, no current section.
NewParser ==
    [sections |-> <<>>, defaults |-> <<>>, cursect |-> NoneObj, optname |-> NoneObj,
     indent_level |-> 0, e |-> NoneObj, raised |-> NoneObj]

\* The dict cursect refers to.
CurrentSection(p) ==
    IF p.cursect.kind = "Defaults" THEN p.defaults
    ELSE p.sections[DictGet(p.sections, p.cursect.name)].value

\* cursect[optname] = lines
SetOption(p, optname, lines) ==
    IF p.cursect.kind = "Defaults"
    THEN [p EXCEPT !.defaults = DictSet(p.defaults, optname, lines)]
    ELSE [p EXCEPT !.sections =
              DictSet(p.sections, p.cursect.name, DictSet(CurrentSection(p), optname, lines))]

\* cursect is not None and optname
InOption(p) == p.cursect # NoneObj /\ p.optname # NoneObj /\ p.optname.str # <<>>

\* cursect[optname].append(value)
AppendToOption(p, value) ==
    LET cur == CurrentSection(p)
    IN  SetOption(p, p.optname.str, Append(cur[DictGet(cur, p.optname.str)].value, value))

\* The body of the loop of RawConfigParser._read for one line.
ReadLine(p, line) ==
    IF StartsWith(Strip(line), CommentPrefix) THEN p
    ELSE IF Strip(line) = <<>>
    THEN IF InOption(p) THEN AppendToOption(p, <<>>) ELSE p
    ELSE IF InOption(p) /\ IndentLevel(line) > p.indent_level
    THEN AppendToOption(p, Strip(line))
    ELSE LET value == Strip(line)
             q == [p EXCEPT !.indent_level = IndentLevel(line)]
             header == SectionHeader(value)
             mo == OptionMatch(value)
         IN  IF header # NoneObj
             THEN IF header.str \in DictKeys(q.sections)
                  THEN [q EXCEPT !.cursect = [kind |-> "Section", name |-> header.str],
                                 !.optname = NoneObj]
                  ELSE IF header.str = DefaultSection
                  THEN [q EXCEPT !.cursect = [kind |-> "Defaults"], !.optname = NoneObj]
                  ELSE [q EXCEPT !.sections = Append(q.sections, [key |-> header.str, value |-> <<>>]),
                                 !.cursect = [kind |-> "Section", name |-> header.str],
                                 !.optname = NoneObj]
             ELSE IF q.cursect = NoneObj
             THEN [q EXCEPT !.raised = Raise("MissingSectionHeaderError")]
             ELSE IF mo # NoneObj
             THEN LET r == SetOption(q, mo.option, <<mo.value>>)
                  IN  [r EXCEPT !.optname = Str(mo.option),
                                !.e = IF mo.option = <<>> /\ q.e = NoneObj
                                      THEN Raise("ParsingError") ELSE q.e]
             ELSE [q EXCEPT !.e = IF q.e = NoneObj THEN Raise("ParsingError") ELSE q.e]

RECURSIVE ReadLoop(_, _, _)
\* for lineno, line in enumerate(fp, start=1)
ReadLoop(p, lines, i) ==
    IF i > Len(lines) \/ p.raised # NoneObj THEN p
    ELSE ReadLoop(ReadLine(p, lines[i]), lines, i + 1)

RECURSIVE JoinValue(_)
\* '\n'.join(val)
JoinValue(val) ==
    IF Len(val) = 1 THEN val[1]
    ELSE val[1] \o <<NL>> \o JoinValue(Tail(val))

\* _join_multiline_values over one dict of options
JoinOptions(options) ==
    [i \in 1..Len(options) |->
        [key |-> options[i].key, value |-> RStrip(JoinValue(options[i].value))]]

RECURSIVE DictUpdate(_, _)
\* d.update(other)
DictUpdate(d, other) ==
    IF other = <<>> THEN d
    ELSE DictUpdate(DictSet(d, Head(other).key, Head(other).value), Tail(other))

\* p.items('NPlayers', raw=True): the defaults updated with the section's options
ParserItems(p, section) ==
    DictUpdate(JoinOptions(p.defaults),
               JoinOptions(p.sections[DictGet(p.sections, section)].value))

RECURSIVE InvertItems(_, _)
\* d[value].append(item) for each item, d a defaultdict(list)
InvertItems(d, items) ==
    IF items = <<>> THEN d
    ELSE LET item == Head(items).key
             value == Head(items).value
             had == IF value \in DictKeys(d) THEN d[DictGet(d, value)].value ELSE <<>>
         IN  InvertItems(DictSet(d, value, Append(had, item)), Tail(items))

\* A mapping as _get_nplayers returns it.
MappingOf(d) == [kind |-> "Mapping", d |-> d]

\* _get_nplayers(cat_path): p.read skips a file it cannot open
GetNplayers(file) ==
    LET p == IF file.exists THEN ReadLoop(NewParser, file.lines, 1) ELSE NewParser
    IN  IF p.raised # NoneObj THEN p.raised
        ELSE IF p.e # NoneObj THEN p.e
        ELSE IF NPlayersSection \notin DictKeys(p.sections) THEN MappingOf(<<>>)
        ELSE MappingOf(InvertItems(<<>>, ParserItems(p, NPlayersSection)))

\* The lines a file is made of: headers, options, a comment, a blank line, an indented
\* line and a line with no delimiter.
NplayersLines ==
    { <<"[", "N", "P", "l", "a", "y", "e", "r", "s", "]">>, <<"[", "O", "t", "h", "e", "r", "]">>, <<"[", "D", "E", "F", "A", "U", "L", "T", "]">>, <<"p", "a", "c", "m", "a", "n", "=", "1", "P">>, <<"d", "k", "o", "n", "g", " ", "=", " ", "1", "P">>, <<"f", "r", "o", "g", "g", "e", "r", "=", "2", "P">>,
      <<"p", "a", "c", "m", "a", "n", "=", "2", "P">>, <<";", "n", "o", "t", "e">>, <<>>, <<" ", "2", "P">>, <<"p", "a", "c", "m", "a", "n", " ", "1", "P">> }

RECURSIVE SeqsUpTo(_, _)
\* The sequences over a set of at most n members.
SeqsUpTo(set, n) ==
    IF n = 0 THEN {<<>>}
    ELSE SeqsUpTo(set, n - 1) \cup {Append(s, x) : s \in {t \in SeqsUpTo(set, n - 1) : Len(t) = n - 1}, x \in set}

InitNplayers ==
    /\ nplayersFile \in
          {[exists |-> FALSE, lines |-> <<>>]} \cup
          {[exists |-> TRUE, lines |-> lines] : lines \in SeqsUpTo(NplayersLines, MaxNplayersLines)}
    /\ nplayersResult = NoneObj
    /\ OnlyNplayers

\* _get_nplayers(cat_path)
ReadNplayers ==
    /\ nplayersResult = NoneObj
    /\ nplayersResult' = GetNplayers(nplayersFile)
    /\ UNCHANGED nplayersFile
    /\ UNCHANGED notNplayersVars

NextNplayers == ReadNplayers

SpecNplayers == InitNplayers /\ [][NextNplayers]_vars

---------------------------------------------------------------------------
(* Claims about _get_nplayers *)

\* The lines 'k=v' spelt without blanks, as [basename, value].
PlainOptions ==
    << [key |-> <<"p", "a", "c", "m", "a", "n", "=", "1", "P">>, value |-> [k |-> <<"p", "a", "c", "m", "a", "n">>, v |-> <<"1", "P">>]],
       [key |-> <<"f", "r", "o", "g", "g", "e", "r", "=", "2", "P">>, value |-> [k |-> <<"f", "r", "o", "g", "g", "e", "r">>, v |-> <<"2", "P">>]],
       [key |-> <<"p", "a", "c", "m", "a", "n", "=", "2", "P">>, value |-> [k |-> <<"p", "a", "c", "m", "a", "n">>, v |-> <<"2", "P">>]] >>

\* The file is made of '[NPlayers]' and '[Other]' headers and lines 'k=v' only, and
\* starts with a header.
PlainFile(file) ==
    /\ file.exists
    /\ file.lines # <<>>
    /\ file.lines[1] \in {<<"[", "N", "P", "l", "a", "y", "e", "r", "s", "]">>, <<"[", "O", "t", "h", "e", "r", "]">>}
    /\ \A i \in 1..Len(file.lines) :
          file.lines[i] \in {<<"[", "N", "P", "l", "a", "y", "e", "r", "s", "]">>, <<"[", "O", "t", "h", "e", "r", "]">>} \cup DictKeys(PlainOptions)

\* The lines 'k=v' of the file that stand under an '[NPlayers]' header.
NPlayersOptions(file) ==
    { PlainOptions[DictGet(PlainOptions, file.lines[i])].value :
        i \in { j \in 1..Len(file.lines) :
                  /\ file.lines[j] \in DictKeys(PlainOptions)
                  /\ \E h \in 1..(j - 1) :
                        /\ file.lines[h] = <<"[", "N", "P", "l", "a", "y", "e", "r", "s", "]">>
                        /\ \A m \in (h + 1)..(j - 1) : file.lines[m] # <<"[", "O", "t", "h", "e", "r", "]">> } }

\* The members of a list.
Members(list) == {list[i] : i \in 1..Len(list)}

\* C20: _get_nplayers inverts the [NPlayers] section: for every basename k whose line
\* gives it the value v, k is a member of result[v]; the keys of the result are
\* exactly the distinct values; and a file without an [NPlayers] section yields an
\* empty mapping.
C20_Inverted ==
    (nplayersResult # NoneObj /\ PlainFile(nplayersFile)) =>
        /\ nplayersResult.kind = "Mapping"
        /\ \A o \in NPlayersOptions(nplayersFile) :
              /\ o.v \in DictKeys(nplayersResult.d)
              /\ o.k \in Members(nplayersResult.d[DictGet(nplayersResult.d, o.v)].value)
        /\ DictKeys(nplayersResult.d) = {o.v : o \in NPlayersOptions(nplayersFile)}
        /\ (\A i \in 1..Len(nplayersFile.lines) : nplayersFile.lines[i] # <<"[", "N", "P", "l", "a", "y", "e", "r", "s", "]">>)
              => nplayersResult.d = <<>>


---------------------------------------------------------------------------
(* support_files/history.py: HistoryEntry *)

\* The sections after the lead-in of a history entry, at most.
MaxHistorySections == 2

\* The literal parts of _start_line_pattern = '(?P<type>.+) published (?P<age>.+) years ago:'
PublishedLiteral == <<" ", "p", "u", "b", "l", "i", "s", "h", "e", "d", " ">>

YearsAgoLiteral == <<" ", "y", "e", "a", "r", "s", " ", "a", "g", "o", ":">>

\* HistoryEntry(text)
HistoryEntry(str) == [kind |-> "HistoryEntry", sections |-> ParseInfoSections(str)]

\* dict.get(key): the value as a str, None when the key is absent
SectionsGet(d, key) ==
    IF key \in DictKeys(d) THEN Str(d[DictGet(d, key)].value) ELSE NoneObj

\* _start_line_pattern.match(start): the ends of the type and age groups, None when
\* there is no match.  '.' matches no newline, so the match lies in the first line;
\* both groups are greedy, the first takes what it can before the second does.
StartLineMatch(start) ==
    LET line_end == IF NextNewline(start, 1) = 0 THEN Len(start) ELSE NextNewline(start, 1) - 1
        published == { i \in 1..(line_end - Len(PublishedLiteral)) :
                         SubSeq(start, i + 1, i + Len(PublishedLiteral)) = PublishedLiteral }
        years_ago == { j \in 1..(line_end - Len(YearsAgoLiteral)) :
                         SubSeq(start, j + 1, j + Len(YearsAgoLiteral)) = YearsAgoLiteral }
        fits == { m \in published \X years_ago : m[1] + Len(PublishedLiteral) < m[2] }
    IN  IF fits = {} THEN NoneObj
        ELSE LET m == CHOOSE x \in fits :
                          \A y \in fits : y[1] < x[1] \/ (y[1] = x[1] /\ y[2] <= x[2])
             IN  [kind |-> "Match",
                  type |-> SubSeq(start, 1, m[1]),
                  age |-> SubSeq(start, m[1] + Len(PublishedLiteral) + 1, m[2]),
                  end |-> m[2] + Len(YearsAgoLiteral)]

\* HistoryEntry._start with the rest of the text left as it stands.
HistoryStartUnstripped(entry) ==
    LET start == SectionsGet(entry.sections, <<>>)
        start_match == StartLineMatch(start.str)
    IN  IF start = NoneObj THEN <<NoneObj, NoneObj, NoneObj>>
        ELSE IF start_match = NoneObj THEN <<NoneObj, NoneObj, start>>
        ELSE <<Str(start_match.type), Str(start_match.age),
               Str(SubSeq(start.str, start_match.end + 2, Len(start.str)))>>

\* HistoryEntry._start
HistoryStart(entry) ==
    LET start == SectionsGet(entry.sections, <<>>)
        start_match == StartLineMatch(start.str)
    IN  IF start = NoneObj THEN <<NoneObj, NoneObj, NoneObj>>
        ELSE IF start_match = NoneObj THEN <<NoneObj, NoneObj, start>>
        ELSE <<Str(start_match.type), Str(start_match.age),
               Str(Strip(SubSeq(start.str, start_match.end + 2, Len(start.str))))>>

\* The value of each digit int() knows in bases up to 16.
DigitValues ==
    << [key |-> "0", value |-> 0], [key |-> "1", value |-> 1], [key |-> "2", value |-> 2],
       [key |-> "3", value |-> 3], [key |-> "4", value |-> 4], [key |-> "5", value |-> 5],
       [key |-> "6", value |-> 6], [key |-> "7", value |-> 7], [key |-> "8", value |-> 8],
       [key |-> "9", value |-> 9], [key |-> "a", value |-> 10], [key |-> "b", value |-> 11],
       [key |-> "c", value |-> 12], [key |-> "d", value |-> 13], [key |-> "e", value |-> 14],
       [key |-> "f", value |-> 15], [key |-> "A", value |-> 10], [key |-> "B", value |-> 11],
       [key |-> "C", value |-> 12], [key |-> "D", value |-> 13], [key |-> "E", value |-> 14],
       [key |-> "F", value |-> 15] >>

\* The character is a digit of the base.
IsDigit(c, base) == c \in DictKeys(DigitValues) /\ DigitValues[DictGet(DigitValues, c)].value < base

RECURSIVE DigitsValue(_, _, _)
\* The number the digits spell, underscores passed over.
DigitsValue(digits, base, acc) ==
    IF digits = <<>> THEN acc
    ELSE IF Head(digits) = "_" THEN DigitsValue(Tail(digits), base, acc)
    ELSE DigitsValue(Tail(digits), base,
                     acc * base + DigitValues[DictGet(DigitValues, Head(digits))].value)

\* int(s, base) for base 10 or 16: blanks around, a sign, the prefix 0x in base 16,
\* digits with single underscores between them; ValueError for anything else.
PyInt(s, base) ==
    LET stripped == Strip(s)
        signed == stripped # <<>> /\ stripped[1] \in {"+", "-"}
        unsigned == IF signed THEN Tail(stripped) ELSE stripped
        prefixed == /\ base = 16
                    /\ Len(unsigned) >= 2
                    /\ unsigned[1] = "0"
                    /\ unsigned[2] \in {"x", "X"}
        digits == IF prefixed THEN SubSeq(unsigned, 3, Len(unsigned)) ELSE unsigned
        body == IF prefixed /\ digits # <<>> /\ digits[1] = "_" THEN Tail(digits) ELSE digits
        wellFormed == /\ body # <<>>
                      /\ \A i \in 1..Len(body) : IsDigit(body[i], base) \/ body[i] = "_"
                      /\ body[1] # "_"
                      /\ body[Len(body)] # "_"
                      /\ \A i \in 1..(Len(body) - 1) : ~(body[i] = "_" /\ body[i + 1] = "_")
    IN  IF ~wellFormed THEN Raise("ValueError")
        ELSE IF signed /\ stripped[1] = "-" THEN IntOf(0 - DigitsValue(body, base, 0))
        ELSE IntOf(DigitsValue(body, base, 0))

\* try_parse_int(s) with its default arguments
TryParseInt(s) ==
    IF s = NoneObj \/ s.str = <<>> THEN NoneObj
    ELSE LET n == PyInt(s.str, IF StartsWith(s.str, <<"0", "x">>) THEN 16 ELSE 10)
         IN  IF IsRaise(n) THEN NoneObj ELSE n

\* The header each named accessor of HistoryEntry looks up.
NamedSections ==
    << [key |-> "technical_info", value |-> <<"T", "E", "C", "H", "N", "I", "C", "A", "L">>],
       [key |-> "trivia", value |-> <<"T", "R", "I", "V", "I", "A">>],
       [key |-> "tips_and_tricks", value |-> <<"T", "I", "P", "S", " ", "A", "N", "D", " ", "T", "R", "I", "C", "K", "S">>],
       [key |-> "updates", value |-> <<"U", "P", "D", "A", "T", "E", "S">>],
       [key |-> "scoring", value |-> <<"S", "C", "O", "R", "I", "N", "G">>],
       [key |-> "series_info", value |-> <<"S", "E", "R", "I", "E", "S">>],
       [key |-> "staff", value |-> <<"S", "T", "A", "F", "F">>],
       [key |-> "ports", value |-> <<"P", "O", "R", "T", "S">>],
       [key |-> "cast", value |-> <<"C", "A", "S", "T", " ", "O", "F", " ", "C", "H", "A", "R", "A", "C", "T", "E", "R", "S">>] >>

\* The keys other_sections leaves out.
ExcludedKeys ==
    { <<>>, <<"T", "E", "C", "H", "N", "I", "C", "A", "L">>, <<"T", "R", "I", "V", "I", "A">>, <<"T", "I", "P", "S", " ", "A", "N", "D", " ", "T", "R", "I", "C", "K", "S">>, <<"U", "P", "D", "A", "T", "E", "S">>, <<"S", "C", "O", "R", "I", "N", "G">>, <<"S", "E", "R", "I", "E", "S">>,
      <<"S", "T", "A", "F", "F">>, <<"P", "O", "R", "T", "S">>, <<"C", "A", "S", "T", " ", "O", "F", " ", "C", "H", "A", "R", "A", "C", "T", "E", "R", "S">> }

\* A dict comprehension: the items of d whose key passes, in d's order.
RECURSIVE DictFilter(_, _)
DictFilter(d, keep) ==
    IF d = <<>> THEN <<>>
    ELSE IF Head(d).key \in keep THEN <<Head(d)>> \o DictFilter(Tail(d), keep)
    ELSE DictFilter(Tail(d), keep)

\* other_sections with the last of the named headers not among the keys left out.
HistoryOtherSectionsByAccessors(entry) ==
    MappingOf(DictFilter(entry.sections,
                         DictKeys(entry.sections)
                             \ ({<<>>} \cup {NamedSections[i].value : i \in 1..(Len(NamedSections) - 1)})))

\* HistoryEntry.other_sections
HistoryOtherSections(entry) ==
    MappingOf(DictFilter(entry.sections, DictKeys(entry.sections) \ ExcludedKeys))

\* The accessors of HistoryEntry a caller reads.
HistoryAccessors ==
    {"entry_type", "age", "description", "other_sections"} \cup DictKeys(NamedSections)

HistoryAccess(entry, accessor) ==
    CASE accessor = "entry_type" -> HistoryStart(entry)[1]
      [] accessor = "age" -> TryParseInt(HistoryStart(entry)[2])
      [] accessor = "description" -> HistoryStart(entry)[3]
      [] accessor = "other_sections" -> HistoryOtherSections(entry)
      [] OTHER -> SectionsGet(entry.sections, NamedSections[DictGet(NamedSections, accessor)].value)


\* The parts a lead-in is written from: what stands for the type, for the age, after
\* the colon, and for the description.
LeadTypes == { <<"A", "r", "c", "a", "d", "e">>, <<"A", "r", "c", "a", "d", "e", " ", "V", "i", "d", "e", "o", " ", "g", "a", "m", "e">> }

LeadAges ==
    { <<"5">>, <<"4", "4">>, <<"0", "5">>, <<" ", "5">>, <<"-", "3">>, <<"1", "_", "0">>, <<"0", "x", "1", "F">>, <<"0", "x">>, <<"f", "i", "v", "e">>, <<"5", " ", "p", "u", "b", "l", "i", "s", "h", "e", "d", " ", "2">> }

LeadSeparators == { <<" ">>, <<NL>>, <<>> }

LeadDescriptions ==
    { <<>>, <<"A", " ", "g", "r", "e", "a", "t", " ", "g", "a", "m", "e", ".">>, <<" ", " ", "P", "a", "d", "d", "e", "d", ".">>, <<"L", "i", "n", "e", " ", "o", "n", "e", ".">> \o <<NL>> \o <<"L", "i", "n", "e", " ", "t", "w", "o", ".">>,
      <<"R", "e", "m", "a", "k", "e", " ", "p", "u", "b", "l", "i", "s", "h", "e", "d", " ", "2", " ", "y", "e", "a", "r", "s", " ", "a", "g", "o", ":", " ", "f", "u", "n">> }

\* Lead-ins written some other way.
OtherLeads ==
    { <<>>, <<"J", "u", "s", "t", " ", "s", "o", "m", "e", " ", "t", "e", "x", "t", ".">>, <<"A", "r", "c", "a", "d", "e", " ", "p", "u", "b", "l", "i", "s", "h", "e", "d", " ", "y", "e", "a", "r", "s", " ", "a", "g", "o", ":", " ", "x">>,
      <<"I", "n", "t", "r", "o">> \o <<NL>> \o <<"A", "r", "c", "a", "d", "e", " ", "p", "u", "b", "l", "i", "s", "h", "e", "d", " ", "5", " ", "y", "e", "a", "r", "s", " ", "a", "g", "o", ":", " ", "x">>,
      <<"A", "r", "c", "a", "d", "e", " ", "p", "u", "b", "l", "i", "s", "h", "e", "d", " ", "5">> \o <<NL>> \o <<" ", "y", "e", "a", "r", "s", " ", "a", "g", "o", ":", " ", "x">> }

\* The headers of the sections after the lead-in.
HistoryHeaders ==
    { NamedSections[i].value : i \in 1..Len(NamedSections) }
        \cup { <<"C", "O", "N", "T", "R", "I", "B", "U", "T", "E">>, <<"t", "e", "c", "h", "n", "i", "c", "a", "l">>, <<"C", "A", "S", "T", " ", "O", "F", " ", "E", "L", "E", "M", "E", "N", "T", "S">> }

\* The text of the n-th section after the lead-in.
SectionBody(n) == <<"t", "e", "x", "t", " ">> \o <<DigitValues[n + 1].key>>

RECURSIVE TailText(_, _)
\* The sections after the lead-in, each under its '- HEADER -' line.
TailText(headers, n) ==
    IF n > Len(headers) THEN <<>>
    ELSE Delimiter(headers[n]) \o SectionBody(n) \o TailText(headers, n + 1)

\* Entries whose lead-in is written as '<type> published <age> years ago:' and what
\* follows, with no section or one after it.
FormedEntries ==
    { [formed |-> TRUE, type |-> t, age |-> a, separator |-> s, description |-> d,
       headers |-> hs,
       str |-> t \o PublishedLiteral \o a \o YearsAgoLiteral \o s \o d \o TailText(hs, 1)] :
        t \in LeadTypes, a \in LeadAges, s \in LeadSeparators, d \in LeadDescriptions,
        hs \in {<<>>, <<<<"T", "R", "I", "V", "I", "A">>>>} }

\* Entries with some other lead-in and up to MaxHistorySections sections after it
\* (the lead-ins that look like the pattern with one section at most).
SectionedEntries ==
    { [formed |-> FALSE, type |-> <<>>, age |-> <<>>, separator |-> <<>>,
       description |-> e[1], headers |-> e[2], str |-> e[1] \o TailText(e[2], 1)] :
        e \in { x \in OtherLeads \X SeqsUpTo(HistoryHeaders, MaxHistorySections) :
                  FindFirst(x[1], PublishedLiteral, 1) = 0 \/ Len(x[2]) <= 1 } }

InitHistory ==
    /\ historyText \in FormedEntries \cup SectionedEntries
    /\ historyEntry = NoneObj
    /\ historyRead = NoRead
    /\ OnlyHistory

\* HistoryEntry(text)
HistoryConstruct ==
    /\ historyEntry = NoneObj
    /\ historyEntry' = HistoryEntry(historyText.str)
    /\ UNCHANGED <<historyText, historyRead>>
    /\ UNCHANGED notHistoryVars

\* A property of the HistoryEntry is read.
HistoryReadAccessor(accessor) ==
    /\ historyEntry # NoneObj
    /\ historyRead' = [accessor |-> accessor, value |-> HistoryAccess(historyEntry, accessor)]
    /\ UNCHANGED <<historyText, historyEntry>>
    /\ UNCHANGED notHistoryVars

NextHistory ==
    \/ HistoryConstruct
    \/ \E accessor \in HistoryAccessors : HistoryReadAccessor(accessor)

SpecHistory == InitHistory /\ [][NextHistory]_vars


---------------------------------------------------------------------------
(* Claims about HistoryEntry *)

\* The first line of a text.
FirstLine(str) ==
    IF NextNewline(str, 1) = 0 THEN str ELSE SubSeq(str, 1, NextNewline(str, 1) - 1)

\* The entry's lead-in is '<type> published <age> years ago: <description>' and reads
\* so in one way only: the age holds no ' published ', and no ' years ago:' follows
\* the colon on the first line.
SingleReading(t) ==
    /\ t.formed
    /\ t.separator = <<" ">>
    /\ FindFirst(t.age, PublishedLiteral, 1) = 0
    /\ FindFirst(FirstLine(t.separator \o t.description), YearsAgoLiteral, 1) = 0

\* The integer each age spells as int() reads it (blanks, a sign, underscores between
\* digits, 0x for base sixteen), None for what is no integer.
AgeValues ==
    << [key |-> <<"5">>, value |-> IntOf(5)], [key |-> <<"4", "4">>, value |-> IntOf(44)],
       [key |-> <<"0", "5">>, value |-> IntOf(5)], [key |-> <<" ", "5">>, value |-> IntOf(5)],
       [key |-> <<"-", "3">>, value |-> IntOf(0 - 3)], [key |-> <<"1", "_", "0">>, value |-> IntOf(10)],
       [key |-> <<"0", "x", "1", "F">>, value |-> IntOf(31)], [key |-> <<"0", "x">>, value |-> NoneObj],
       [key |-> <<"f", "i", "v", "e">>, value |-> NoneObj] >>

KnownHeaders ==
    { <<"T", "E", "C", "H", "N", "I", "C", "A", "L">>, <<"T", "R", "I", "V", "I", "A">>, <<"T", "I", "P", "S", " ", "A", "N", "D", " ", "T", "R", "I", "C", "K", "S">>, <<"U", "P", "D", "A", "T", "E", "S">>, <<"S", "C", "O", "R", "I", "N", "G">>, <<"S", "E", "R", "I", "E", "S">>, <<"S", "T", "A", "F", "F">>,
      <<"P", "O", "R", "T", "S">>, <<"C", "A", "S", "T", " ", "O", "F", " ", "C", "H", "A", "R", "A", "C", "T", "E", "R", "S">> }

\* The accessor of each known header.
HeaderAccessors ==
    << [key |-> <<"T", "E", "C", "H", "N", "I", "C", "A", "L">>, value |-> "technical_info"], [key |-> <<"T", "R", "I", "V", "I", "A">>, value |-> "trivia"],
       [key |-> <<"T", "I", "P", "S", " ", "A", "N", "D", " ", "T", "R", "I", "C", "K", "S">>, value |-> "tips_and_tricks"],
       [key |-> <<"U", "P", "D", "A", "T", "E", "S">>, value |-> "updates"], [key |-> <<"S", "C", "O", "R", "I", "N", "G">>, value |-> "scoring"],
       [key |-> <<"S", "E", "R", "I", "E", "S">>, value |-> "series_info"], [key |-> <<"S", "T", "A", "F", "F">>, value |-> "staff"],
       [key |-> <<"P", "O", "R", "T", "S">>, value |-> "ports"], [key |-> <<"C", "A", "S", "T", " ", "O", "F", " ", "C", "H", "A", "R", "A", "C", "T", "E", "R", "S">>, value |-> "cast"] >>

\* The headers the entry's text was written with.
WrittenHeaders == {historyText.headers[i] : i \in 1..Len(historyText.headers)}

\* C22: for every HistoryEntry and every section header h other than the empty lead-in
\* key, h is a key of other_sections exactly when h is not one of the nine known
\* headers, and other_sections[h] equals sections[h] under the unchanged header; a
\* named accessor whose header is absent returns None without raising.
C22_OtherSections ==
    /\ historyRead.accessor = "other_sections" =>
          /\ historyRead.value.kind = "Mapping"
          /\ DictKeys(historyRead.value.d) = WrittenHeaders \ KnownHeaders
          /\ \A h \in DictKeys(historyRead.value.d) :
                historyRead.value.d[DictGet(historyRead.value.d, h)].value
                    = historyEntry.sections[DictGet(historyEntry.sections, h)].value
    /\ \A h \in KnownHeaders :
          (historyRead.accessor = HeaderAccessors[DictGet(HeaderAccessors, h)].value
             /\ h \notin WrittenHeaders)
              => historyRead.value = NoneObj

\* C22 witness: other_sections of an entry written with 'CAST OF CHARACTERS' and
\* 'CAST OF ELEMENTS' was read and holds the second only.
C22_Witness ==
    /\ historyText # NoneObj
    /\ historyText.headers = <<<<"C", "A", "S", "T", " ", "O", "F", " ", "C", "H", "A", "R", "A", "C", "T", "E", "R", "S">>, <<"C", "A", "S", "T", " ", "O", "F", " ", "E", "L", "E", "M", "E", "N", "T", "S">>>>
    /\ historyRead.accessor = "other_sections"
    /\ DictKeys(historyRead.value.d) = {<<"C", "A", "S", "T", " ", "O", "F", " ", "E", "L", "E", "M", "E", "N", "T", "S">>}


---------------------------------------------------------------------------
(* user_data/timer_db.py and the play-time properties of Machine and Software *)

\* The rows of the timer table, at most.
MaxTimerRows == 2

\* The play count a row holds, at most.
MaxPlayCount == 2

\* datetime.timedelta, in microseconds
Timedelta(microseconds) == [kind |-> "Timedelta", microseconds |-> microseconds]

\* TimerDBRow.from_db_row
FromDbRow(row) ==
    [kind |-> "TimerDBRow",
     total_time |-> Timedelta(row.total_time * 1000000),
     play_count |-> row.play_count,
     emulated_time |-> Timedelta(row.emu_sec * 1000000 + row.emu_nsec \div 1000)]

\* The key a row with software is stored under in load_timer_db.
SoftwareKey(row) ==
    <<row.driver, IF row.softlist # <<>> THEN row.softlist \o <<":">> \o row.software
                  ELSE row.software>>

RECURSIVE LoadTimerRows(_, _)
\* The loop of load_timer_db over the rows of 'SELECT * FROM timer'.
LoadTimerRows(rows, db) ==
    IF rows = <<>> THEN db
    ELSE LET row == Head(rows)
         IN  LoadTimerRows(Tail(rows),
                 IF row.software # <<>>
                 THEN [db EXCEPT !.software = DictSet(db.software, SoftwareKey(row), FromDbRow(row))]
                 ELSE [db EXCEPT !.systems = DictSet(db.systems, row.driver, FromDbRow(row))])

\* load_timer_db(db_path): sqlite3.connect makes the file when it is not there, and the
\* SELECT then finds no table
LoadTimerDb(file) ==
    IF ~file.exists THEN Raise("OperationalError")
    ELSE LoadTimerRows(file.rows, [kind |-> "TimerDB", systems |-> <<>>, software |-> <<>>])

\* try_load_timer_db(db_path)
TryLoadTimerDb(file) ==
    IF LoadTimerDb(file) = Raise("FileNotFoundError") THEN NoneObj ELSE LoadTimerDb(file)

\* dict.get(key) on a mapping of rows
RowsGet(d, key) == IF key \in DictKeys(d) THEN d[DictGet(d, key)].value ELSE NoneObj

\* Machine._timer_db_row and Software._timer_db_row
TimerDbRow(subject, configured, file) ==
    IF ~configured THEN NoneObj
    ELSE LET db == TryLoadTimerDb(file)
         IN  IF IsRaise(db) THEN db
             ELSE IF db = NoneObj THEN NoneObj
             ELSE IF subject.kind = "Machine" THEN RowsGet(db.systems, subject.basename)
             ELSE RowsGet(db.software, <<subject.list, subject.basename>>)

\* total_time_played, play_count and total_time_emulated of Machine and of Software
PlayTime(subject, configured, file, accessor) ==
    LET time_played == TimerDbRow(subject, configured, file)
    IN  IF IsRaise(time_played) THEN time_played
        ELSE CASE accessor = "total_time_played" ->
                    IF time_played # NoneObj THEN time_played.total_time ELSE Timedelta(0)
               [] accessor = "play_count" ->
                    IF time_played # NoneObj THEN IntOf(time_played.play_count) ELSE IntOf(0)
               [] accessor = "total_time_emulated" ->
                    IF time_played # NoneObj THEN time_played.emulated_time ELSE Timedelta(0)

PlayTimeAccessors == {"total_time_played", "play_count", "total_time_emulated"}

\* The rows the timer plugin may have written: for a driver alone, or for a driver
\* running a piece of software, from a software list or not.
TimerRows ==
    [driver : {<<"d">>, <<"L">>}, softlist : {<<>>, <<"L">>}, software : {<<>>, <<"S">>},
     total_time : {60}, play_count : 1..MaxPlayCount, emu_sec : {59}, emu_nsec : {2000}]

\* The subjects: the machine d, and the software S of the software list L.
TimerSubjects ==
    { [kind |-> "Machine", basename |-> <<"d">>], [kind |-> "Machine", basename |-> <<"L">>],
      [kind |-> "Software", list |-> <<"L">>, basename |-> <<"S">>] }

InitTimer ==
    /\ timerFile \in
          {[exists |-> FALSE, rows |-> <<>>]} \cup
          {[exists |-> TRUE, rows |-> rows] : rows \in SeqsUpTo(TimerRows, MaxTimerRows)}
    /\ timerConfigured \in BOOLEAN
    /\ timerSubject \in TimerSubjects
    /\ timerRead = NoRead
    /\ OnlyTimer

\* A play-time property of the subject is read.
TimerReadAccessor(accessor) ==
    /\ timerRead' = [accessor |-> accessor,
                     value |-> PlayTime(timerSubject, timerConfigured, timerFile, accessor)]
    /\ UNCHANGED <<timerFile, timerConfigured, timerSubject>>
    /\ UNCHANGED notTimerVars

NextTimer == \E accessor \in PlayTimeAccessors : TimerReadAccessor(accessor)

SpecTimer == InitTimer /\ [][NextTimer]_vars

---------------------------------------------------------------------------
(* Claims about play time *)

\* The rows of the store written for the subject: for a machine the rows of its driver
\* with no software, for a software the rows of its list and its basename.
RowsOf(subject) ==
    { i \in 1..Len(timerFile.rows) :
        IF subject.kind = "Machine"
        THEN timerFile.rows[i].driver = subject.basename /\ timerFile.rows[i].software = <<>>
        ELSE /\ timerFile.rows[i].softlist = subject.list
             /\ timerFile.rows[i].software = subject.basename }

\* C23: for a machine basename absent from the play-time store, or with no store
\* configured, total_time_played and total_time_emulated are the zero duration and
\* play_count is 0, never None; the same defaults hold for Software with no record.
C23_PlayTimeDefaults ==
    (/\ timerRead.accessor # NoneStr
     /\ \/ ~timerConfigured
        \/ timerFile.exists /\ RowsOf(timerSubject) = {})
        => timerRead.value = IF timerRead.accessor = "play_count" THEN IntOf(0) ELSE Timedelta(0)

\* C24: a timer row that load_timer_db stores for software S of software list L is the
\* row that Software(L, S)._timer_db_row finds, so play_count and total_time_played of
\* that Software equal the stored values.
C24_SoftwareRowFound ==
    (/\ timerRead.accessor # NoneStr
     /\ timerConfigured
     /\ timerFile.exists
     /\ timerSubject.kind = "Software"
     /\ RowsOf(timerSubject) # {})
        => LET last == CHOOSE i \in RowsOf(timerSubject) : \A j \in RowsOf(timerSubject) : j <= i
               row == timerFile.rows[last]
           IN  /\ timerRead.accessor = "play_count" => timerRead.value = IntOf(row.play_count)
               /\ timerRead.accessor = "total_time_played"
                     => timerRead.value = Timedelta(row.total_time * 1000000)

---------------------------------------------------------------------------
(* software_finder/finder.py, software_finder/hashes_finder.py *)

\* bytes as a property returns them
Bytes(b) == [kind |-> "Bytes", value |-> b]

\* should_ignore_rom
ShouldIgnoreRom(rom) == rom.load_flag \in {"ignore", "continue"}

\* rom_matches
RomMatches(rom, hashes, use_sha1) ==
    IF rom.size = NoneObj THEN FALSE
    ELSE IF rom.size # hashes.size THEN FALSE
    ELSE IF use_sha1
    THEN IF rom.sha1 = NoneObj THEN FALSE ELSE rom.sha1 = hashes.sha1
    ELSE IF rom.crc = NoneObj THEN FALSE
    ELSE rom.crc = hashes.crc32

\* should_ignore_data_area
ShouldIgnoreDataArea(data_area) ==
    \/ data_area.name = "nvram"
    \/ \A i \in 1..Len(data_area.roms) : ShouldIgnoreRom(data_area.roms[i])

\* data_area_matches
DataAreaMatches(data_area, hashes, use_sha1) ==
    LET roms == SelectSeq(data_area.roms, LAMBDA rom : ~ShouldIgnoreRom(rom))
    IN  IF Len(roms) = 1 THEN RomMatches(roms[1], hashes, use_sha1) ELSE FALSE

\* disk_area_matches
DiskAreaMatches(disk_area, hashes) ==
    LET dumped_disks == SelectSeq(disk_area.disks, LAMBDA disk : disk.status # "nodump")
    IN  IF Len(dumped_disks) = 1 THEN dumped_disks[1].sha1 = hashes.sha1 ELSE FALSE

\* CRC32SoftwareFinder.part_matches
Crc32PartMatches(part, hashes) ==
    IF part.disk_areas # <<>> THEN FALSE
    ELSE LET data_areas == SelectSeq(part.data_areas, LAMBDA area : ~ShouldIgnoreDataArea(area))
         IN  IF Len(data_areas) = 1 THEN DataAreaMatches(data_areas[1], hashes, FALSE)
             ELSE FALSE

\* SHA1SoftwareFinder.part_matches
Sha1PartMatches(part, hashes) ==
    LET data_areas == SelectSeq(part.data_areas, LAMBDA area : ~ShouldIgnoreDataArea(area))
        disk_areas == SelectSeq(part.disk_areas, LAMBDA area : area.disks # <<>>)
    IN  IF Len(data_areas) = 1 /\ disk_areas = <<>>
        THEN DataAreaMatches(data_areas[1], hashes, TRUE)
        ELSE IF hashes.suffix = Str(<<"c", "h", "d">>) /\ Len(disk_areas) = 1 /\ data_areas = <<>>
        THEN DiskAreaMatches(disk_areas[1], hashes)
        ELSE FALSE

\* part_matches of the finder class named
PartMatches(finder, part, hashes) ==
    IF finder = "SHA1SoftwareFinder" THEN Sha1PartMatches(part, hashes)
    ELSE Crc32PartMatches(part, hashes)

\* The SoftwareMatchResult of every part, in the order SoftwareFinder.find visits
\* them: list by list, software by software, part by part.
RECURSIVE PartsOfSoftware(_, _, _)
PartsOfSoftware(software_list, software, i) ==
    IF i > Len(software.parts) THEN <<>>
    ELSE <<[software_list |-> software_list.basename,
            software |-> [basename |-> software.basename,
                          parent_basename |-> software.parent_basename],
            part |-> software.parts[i]]>>
         \o PartsOfSoftware(software_list, software, i + 1)

RECURSIVE PartsOfList(_, _)
PartsOfList(software_list, i) ==
    IF i > Len(software_list.software) THEN <<>>
    ELSE PartsOfSoftware(software_list, software_list.software[i], 1)
         \o PartsOfList(software_list, i + 1)

RECURSIVE PartsOfLists(_, _)
PartsOfLists(lists, i) ==
    IF i > Len(lists) THEN <<>>
    ELSE PartsOfList(lists[i], 1) \o PartsOfLists(lists, i + 1)

\* SoftwareFinder.find_all
FindAll(finder, lists, hashes) ==
    SelectSeq(PartsOfLists(lists, 1), LAMBDA result : PartMatches(finder, result.part, hashes))

\* SoftwareFinder.narrow_down_results
NarrowDownResults(finder, results, hashes) ==
    SelectSeq(results, LAMBDA result : PartMatches(finder, result.part, hashes))

\* A sequence of SoftwareMatchResult as a function returns it
MatchesOf(results) == [kind |-> "Matches", results |-> results]

\* _combine_matches.  matches[0], the default handed to next(), is evaluated before
\* next() is called, and every all() over matches[1:] is true for an empty sequence.
CombineMatches(results) ==
    IF Len(results) = 1 THEN MatchesOf(results)
    ELSE IF ~\A i \in 2..Len(results) : results[i].software_list = results[1].software_list
    THEN MatchesOf(results)
    ELSE IF ~\A i \in 2..Len(results) : results[i].part.name = results[1].part.name
    THEN MatchesOf(results)
    ELSE LET family_names == [i \in 1..Len(results) |->
                                IF results[i].software.parent_basename # NoneStr
                                THEN results[i].software.parent_basename
                                ELSE results[i].software.basename]
             parents == {i \in 1..Len(results) : results[i].software.parent_basename = NoneStr}
         IN  IF \A i \in 2..Len(results) : family_names[i] = family_names[1]
             THEN IF results = <<>> THEN Raise("IndexError")
                  ELSE MatchesOf(<<IF parents = {} THEN results[1]
                                   ELSE results[CHOOSE i \in parents : \A j \in parents : i <= j]>>)
             ELSE MatchesOf(results)

\* find_software_for_hashes
FindSoftwareForHashes(lists, hashes) ==
    IF lists = <<>> THEN MatchesOf(<<>>)
    ELSE LET found == FindAll("CRC32SoftwareFinder", lists, hashes)
         IN  IF found = <<>> THEN MatchesOf(<<>>)
             ELSE LET combined == CombineMatches(found)
                  IN  IF IsRaise(combined) THEN combined
                      ELSE IF Len(combined.results) = 1 THEN combined
                      ELSE CombineMatches(
                               NarrowDownResults("SHA1SoftwareFinder", combined.results, hashes))

\* The hashes of the file looked for.
FileHashes ==
    [size |-> IntOf(1), crc32 |-> IntOf(1), sha1 |-> Bytes("h1"), suffix |-> Str(<<"b", "i", "n">>)]

\* A part with one data area holding one ROM.
RomPart(name, crc, sha1) ==
    [name |-> name,
     data_areas |-> <<[name |-> "rom",
                       roms |-> <<[load_flag |-> NoneStr, size |-> IntOf(1),
                                   crc |-> crc, sha1 |-> sha1]>>]>>,
     disk_areas |-> <<>>]

\* The parts of the software lists: the file itself, another dump with the same
\* CRC32 (on the same and on another part name), and an unrelated ROM.
PartShapes ==
    { RomPart("flop1", IntOf(1), Bytes("h1")),
      RomPart("flop1", IntOf(1), Bytes("h2")),
      RomPart("flop2", IntOf(1), Bytes("h2")),
      RomPart("flop1", IntOf(2), Bytes("h3")) }

\* The software of one behaviour, at most.
MaxSoftware == 2

SoftwareListNames == <<"L1", "L2">>

FinderBasenames == <<"s1", "s2", "s3", "s4">>

\* n software lists holding the software described: the i-th description gives the
\* list, the parent and the one part of the software FinderBasenames[i].
BuildLists(n, described) ==
    [l \in 1..n |->
        [basename |-> SoftwareListNames[l],
         software |->
            LET all == [i \in 1..Len(described) |->
                            [list |-> described[i].list, basename |-> FinderBasenames[i],
                             parent_basename |-> described[i].parent_basename,
                             parts |-> <<described[i].part>>]]
                mine == SelectSeq(all, LAMBDA s : s.list = l)
            IN  [i \in 1..Len(mine) |->
                    [basename |-> mine[i].basename,
                     parent_basename |-> mine[i].parent_basename,
                     parts |-> mine[i].parts]]]]

FinderInputs ==
    { BuildLists(x[1], x[2]) :
        x \in { y \in (0..Len(SoftwareListNames)) \X
                      SeqsUpTo([list : 1..Len(SoftwareListNames),
                                parent_basename : {NoneStr, FinderBasenames[1]},
                                part : PartShapes], MaxSoftware) :
                    /\ \A i \in 1..Len(y[2]) : y[2][i].list <= y[1]
                    /\ y[2] # <<>> => y[2][1].parent_basename = NoneStr } }

InitFinder ==
    /\ software_lists \in FinderInputs
    /\ finderResult = NoneObj
    /\ OnlyFinder

\* find_software_for_hashes(software_lists, hashes)
CallFindSoftwareForHashes ==
    /\ finderResult = NoneObj
    /\ finderResult' = FindSoftwareForHashes(software_lists, FileHashes)
    /\ UNCHANGED software_lists
    /\ UNCHANGED notFinderVars

NextFinder == CallFindSoftwareForHashes

SpecFinder == InitFinder /\ [][NextFinder]_vars

---------------------------------------------------------------------------
(* Claims about find_software_for_hashes *)

\* The matches CRC32SoftwareFinder finds in the lists given.
Crc32Matches == FindAll("CRC32SoftwareFinder", software_lists, FileHashes)

\* sub is a subsequence of seq.
RECURSIVE IsSubsequence(_, _)
IsSubsequence(sub, seq) ==
    IF sub = <<>> THEN TRUE
    ELSE IF seq = <<>> THEN FALSE
    ELSE IF Head(sub) = Head(seq) THEN IsSubsequence(Tail(sub), Tail(seq))
    ELSE IsSubsequence(sub, Tail(seq))

\* C30: find_software_for_hashes returns, without raising, a subsequence of the CRC32
\* matches: empty when there are no software lists or no CRC32 match, the single
\* combined match when the combined CRC32 matches are one, and otherwise a
\* subsequence of the CRC32 matches that also match by SHA-1, which may be empty.
C30_FindReturns ==
    finderResult # NoneObj =>
        /\ ~IsRaise(finderResult)
        /\ IsSubsequence(finderResult.results, Crc32Matches)
        /\ (software_lists = <<>> \/ Crc32Matches = <<>>) => finderResult.results = <<>>
        /\ (Crc32Matches # <<>> /\ Len(CombineMatches(Crc32Matches).results) = 1)
              => finderResult = CombineMatches(Crc32Matches)
        /\ (Crc32Matches # <<>> /\ Len(CombineMatches(Crc32Matches).results) # 1)
              => IsSubsequence(finderResult.results,
                               NarrowDownResults("SHA1SoftwareFinder", Crc32Matches, FileHashes))

=============================================================================
